---- MODULE Spec2Model ----
(***************************************************************************)
(* SPQR decomposition of a graph: the incremental builder                  *)
(* (decomposition/builder.rs), the built decomposition (decomposition.rs)  *)
(* and its two codecs (io/binary.rs, io/plain_spqr_file.rs).               *)
(*                                                                         *)
(* Indices are 0-based as in the source; arenas are sequences, so the      *)
(* entity with index i is arena[i + 1].  An optional index is an integer   *)
(* whose reserved maximum value IndexMax means "unset".                    *)
(***************************************************************************)
EXTENDS Integers, Sequences, FiniteSets, TLC

VARIABLES
    graph,             \* the graph the builder borrows; never mutated
    debug_assertions,  \* whether the build compiles debug_assert! in
    builder,           \* SPQRDecompositionBuilder: five arenas, two scratch tables
    decomposition,     \* the SPQRDecomposition returned by build()
    phase,             \* "building", "panicked", "built", then the codec steps
    call,              \* the call that panicked and the line it panicked at
    budget,            \* the inputs the caller draws from and its call limits
    file,              \* the bytes a writer produced
    loaded,            \* what reading the file returned
    rewritten,         \* the text written for the decomposition read back
    reader             \* read's locals while it goes through a text line by line

vars ==
    <<graph, debug_assertions, builder, decomposition, phase, call, budget, file, loaded,
      rewritten, reader>>

\* ------------------------------------------------------------------ bounds

\* Longest node list / block list among those a caller enumerates in full
\* (the scenarios on larger graphs pass their own fixed lists).
MaxLen == 3
\* Most calls of one kind a caller makes on one builder.
MaxCalls == 2

\* ---------------------------------------------------------- index substrate

\* max_value() of the graph's index integer (u8 in the repository's tests).
IndexMax == 255

\* Optional*Index::new_none / none
OptNone == IndexMax

\* Optional*Index::is_none
IsNone(o) == o = IndexMax

\* Optional*Index::is_some
IsSome(o) == ~IsNone(o)

\* From<Option<Index>> for Optional*Index, applied to Some(index): the
\* optional index stores the integer of the index itself.
OptSome(i) == i

\* ------------------------------------------------------------------- graph

\* The graphs a builder is constructed over.  A graph is its node count and
\* the endpoint pair of every edge, in edge-index order.
SingleEdge == [node_count |-> 2, edges |-> << <<0, 1>> >>]
Path3      == [node_count |-> 3, edges |-> << <<0, 1>>, <<1, 2>> >>]
EdgeAndNode == [node_count |-> 3, edges |-> << <<0, 1>> >>]
TwoEdges   == [node_count |-> 4, edges |-> << <<0, 1>>, <<2, 3>> >>]
\* A cycle of four nodes, and two triangles that share node 2.
Cycle4 == [node_count |-> 4, edges |-> << <<0, 1>>, <<1, 2>>, <<2, 3>>, <<3, 0>> >>]
TwoTriangles ==
    [node_count |-> 5,
     edges |-> << <<0, 1>>, <<1, 2>>, <<2, 0>>, <<2, 3>>, <<3, 4>>, <<4, 2>> >>]

\* Two nodes joined by two edges.
ParallelEdges == [node_count |-> 2, edges |-> << <<0, 1>>, <<0, 1>> >>]

\* StaticGraph::node_count / edge_count
NodeCount(g) == g.node_count
EdgeCount(g) == Len(g.edges)

\* StaticGraph::node_indices / edge_indices, as sets
NodeIndices(g) == 0 .. (NodeCount(g) - 1)
EdgeIndices(g) == 0 .. (EdgeCount(g) - 1)

\* StaticGraph::edge_endpoints
EdgeEndpoints(g, e) == g.edges[e + 1]

\* StaticGraph::incident_edges: the edges having the node as an endpoint,
\* as the sequence of their indices in increasing order.
RECURSIVE IncidentFrom(_, _, _)
IncidentFrom(g, n, e) ==
    IF e >= EdgeCount(g) THEN <<>>
    ELSE (IF EdgeEndpoints(g, e)[1] = n \/ EdgeEndpoints(g, e)[2] = n
          THEN <<e>> ELSE <<>>) \o IncidentFrom(g, n, e + 1)

IncidentEdges(g, n) == IncidentFrom(g, n, 0)

\* ----------------------------------------------------------------- helpers

\* slice::contains
Contains(s, x) == \E i \in 1 .. Len(s) : s[i] = x

\* Vec::push
Push(s, x) == Append(s, x)

\* All sequences over S of length at most n.
RECURSIVE SeqsUpTo(_, _)
SeqsUpTo(S, n) ==
    IF n = 0 THEN {<<>>}
    ELSE LET shorter == SeqsUpTo(S, n - 1)
         IN  shorter \cup {Append(s, x) : s \in {t \in shorter : Len(t) = n - 1}, x \in S}

\* ------------------------------------------------------------ builder state

\* SPQRDecompositionNodeDataBuilder as constructed by new()
NewNodeData ==
    [component_index   |-> OptNone,
     block_indices     |-> <<>>,
     cut_node_index    |-> OptNone,
     spqr_node_indices |-> <<>>,
     extra_data        |-> <<>>]

\* SPQRDecompositionEdgeDataBuilder as constructed by new()
NewEdgeData ==
    [component_index |-> OptNone,
     block_index     |-> OptNone,
     spqr_node_index |-> OptNone,
     extra_data      |-> <<>>]

\* SPQRDecompositionBuilder::new
NewBuilder(g) ==
    [components |-> <<>>,
     blocks     |-> <<>>,
     cut_nodes  |-> <<>>,
     spqr_nodes |-> <<>>,
     spqr_edges |-> <<>>,
     node_data  |-> [n \in NodeIndices(g) |-> NewNodeData],
     edge_data  |-> [e \in EdgeIndices(g) |-> NewEdgeData]]

\* The outcome of one builder call: the builder as the call leaves it, whether
\* the call returned (ok) or panicked, the index it returned, and the line of
\* builder.rs whose assertion (or unwrap) panicked.
Returned(b, ret) == [b |-> b, ok |-> TRUE, ret |-> ret, at |-> 0]
Panicked(b, line) == [b |-> b, ok |-> FALSE, ret |-> OptNone, at |-> line]

\* A loop state st stopped by the panic at the given line.
Stop(st, line) == [st EXCEPT !.ok = FALSE, !.at = line]

\* TaggedVec::push_in_place hands the closure the index the new value will
\* get: the current length of the arena.
NextIndex(arena) == Len(arena)

\* ----------------------------------------------------------- add_component

\* The inner loop of add_component over the incident edges of one node
\* (builder.rs 87-92), from position i of the edge list; st is
\* [nd, ed, ok].
RECURSIVE ClaimEdgesForComponent(_, _, _, _)

ClaimEdgesForComponent_Overwrite(st, es, i, index) ==
    IF i > Len(es) THEN st
    ELSE ClaimEdgesForComponent([st EXCEPT !.ed[es[i]].component_index = OptSome(index)],
                                es, i + 1, index)

ClaimEdgesForComponent(st, es, i, index) ==
    IF i > Len(es) THEN st
    ELSE LET e == es[i] IN
         IF st.ed[e].component_index /= OptSome(index)
         THEN IF IsNone(st.ed[e].component_index)
              THEN ClaimEdgesForComponent(
                       [st EXCEPT !.ed[e].component_index = OptSome(index)],
                       es, i + 1, index)
              ELSE Stop(st, 89)
         ELSE ClaimEdgesForComponent(st, es, i + 1, index)

RECURSIVE AssignComponent(_, _, _, _, _)

AssignComponent_NoCheck(st, g, nodes, i, index) ==
    IF i > Len(nodes) THEN st
    ELSE LET node == nodes[i]
             set == [st EXCEPT !.nd[node].component_index = OptSome(index)]
             claimed == ClaimEdgesForComponent(set, IncidentEdges(g, node), 1, index)
         IN  IF claimed.ok
             THEN AssignComponent(claimed, g, nodes, i + 1, index)
             ELSE claimed

\* The loop of add_component over the listed nodes (builder.rs 83-93).
AssignComponent(st, g, nodes, i, index) ==
    IF i > Len(nodes) THEN st
    ELSE LET node == nodes[i] IN
         IF ~IsNone(st.nd[node].component_index)
         THEN Stop(st, 84)
         ELSE LET set == [st EXCEPT !.nd[node].component_index = OptSome(index)]
                  claimed == ClaimEdgesForComponent(set, IncidentEdges(g, node), 1, index)
              IN  IF claimed.ok
                  THEN AssignComponent(claimed, g, nodes, i + 1, index)
                  ELSE claimed

\* SPQRDecompositionBuilder::add_component
add_component(b, g, nodes) ==
    IF nodes = <<>> THEN Panicked(b, 80)
    ELSE LET index == NextIndex(b.components)
             st == AssignComponent([nd |-> b.node_data, ed |-> b.edge_data,
                                    ok |-> TRUE, at |-> 0],
                                   g, nodes, 1, index)
             touched == [b EXCEPT !.node_data = st.nd, !.edge_data = st.ed]
         IN  IF st.ok
             THEN Returned([touched EXCEPT !.components =
                                Push(@, [nodes |-> nodes, blocks |-> <<>>, cut_nodes |-> <<>>])],
                           index)
             ELSE Panicked(touched, st.at)

\* ------------------------------------------------- add_extra_data_to_node

\* SPQRDecompositionBuilder::add_extra_data_to_node
add_extra_data_to_node(b, node, extra_data) ==
    IF b.node_data[node].extra_data /= <<>> THEN Panicked(b, 105)
    ELSE Returned([b EXCEPT !.node_data[node].extra_data = extra_data], OptNone)

\* --------------------------------------------------------------- add_block

RECURSIVE AssignBlock(_, _, _, _, _)

AssignBlock_NoRepeatCheck(st, nodes, i, component, index) ==
    IF i > Len(nodes) THEN st
    ELSE LET node == nodes[i] IN
         IF st.nd[node].component_index /= OptSome(component) THEN Stop(st, 124)
         ELSE AssignBlock([st EXCEPT !.nd[node].block_indices = Push(@, index)],
                          nodes, i + 1, component, index)

\* First loop of add_block (builder.rs 123-127); st is [nd, ok].
AssignBlock(st, nodes, i, component, index) ==
    IF i > Len(nodes) THEN st
    ELSE LET node == nodes[i] IN
         IF st.nd[node].component_index /= OptSome(component) THEN Stop(st, 124)
         ELSE IF Contains(st.nd[node].block_indices, index) THEN Stop(st, 125)
         ELSE AssignBlock([st EXCEPT !.nd[node].block_indices = Push(@, index)],
                          nodes, i + 1, component, index)

RECURSIVE ClaimEdgesForBlock(_, _, _, _, _, _)

ClaimEdgesForBlock_Overwrite(st, g, nd, es, i, index) ==
    IF i > Len(es) THEN st
    ELSE LET e == es[i]
             a == EdgeEndpoints(g, e)[1]
             c == EdgeEndpoints(g, e)[2]
         IN  IF st.ed[e].block_index /= OptSome(index)
                /\ Contains(nd[a].block_indices, index)
                /\ Contains(nd[c].block_indices, index)
             THEN ClaimEdgesForBlock([st EXCEPT !.ed[e].block_index = OptSome(index)],
                                     g, nd, es, i + 1, index)
             ELSE ClaimEdgesForBlock(st, g, nd, es, i + 1, index)

\* Inner loop of the second loop of add_block (builder.rs 130-142); st is
\* [ed, ok], nd the node table after the first loop.
ClaimEdgesForBlock(st, g, nd, es, i, index) ==
    IF i > Len(es) THEN st
    ELSE LET e == es[i]
             a == EdgeEndpoints(g, e)[1]
             c == EdgeEndpoints(g, e)[2]
         IN  IF st.ed[e].block_index /= OptSome(index)
                /\ Contains(nd[a].block_indices, index)
                /\ Contains(nd[c].block_indices, index)
             THEN IF IsNone(st.ed[e].block_index)
                  THEN ClaimEdgesForBlock([st EXCEPT !.ed[e].block_index = OptSome(index)],
                                          g, nd, es, i + 1, index)
                  ELSE Stop(st, 138)
             ELSE ClaimEdgesForBlock(st, g, nd, es, i + 1, index)

\* Second loop of add_block (builder.rs 129-143).
RECURSIVE ClaimBlockEdges(_, _, _, _, _, _)
ClaimBlockEdges(st, g, nd, nodes, i, index) ==
    IF i > Len(nodes) THEN st
    ELSE LET claimed == ClaimEdgesForBlock(st, g, nd, IncidentEdges(g, nodes[i]), 1, index)
         IN  IF claimed.ok
             THEN ClaimBlockEdges(claimed, g, nd, nodes, i + 1, index)
             ELSE claimed

add_block_Unlisted(b, g, component, nodes) ==
    IF nodes = <<>> THEN Panicked(b, 118)
    ELSE LET index == NextIndex(b.blocks)
             s1 == AssignBlock([nd |-> b.node_data, ok |-> TRUE, at |-> 0],
                               nodes, 1, component, index)
             s2 == ClaimBlockEdges([ed |-> b.edge_data, ok |-> TRUE, at |-> 0],
                                   g, s1.nd, nodes, 1, index)
         IN  IF ~s1.ok THEN Panicked([b EXCEPT !.node_data = s1.nd], s1.at)
             ELSE IF ~s2.ok
             THEN Panicked([b EXCEPT !.node_data = s1.nd, !.edge_data = s2.ed], s2.at)
             ELSE Returned([b EXCEPT
                                !.node_data = s1.nd,
                                !.edge_data = s2.ed,
                                !.blocks = Push(@, [component  |-> component,
                                                    nodes      |-> nodes,
                                                    cut_nodes  |-> <<>>,
                                                    spqr_nodes |-> <<>>,
                                                    spqr_edges |-> <<>>])],
                           index)

\* SPQRDecompositionBuilder::add_block
add_block(b, g, component, nodes) ==
    IF nodes = <<>> THEN Panicked(b, 118)
    ELSE LET index == NextIndex(b.blocks)
             listed == [b EXCEPT !.components[component + 1].blocks = Push(@, index)]
             s1 == AssignBlock([nd |-> b.node_data, ok |-> TRUE, at |-> 0],
                               nodes, 1, component, index)
             s2 == ClaimBlockEdges([ed |-> b.edge_data, ok |-> TRUE, at |-> 0],
                                   g, s1.nd, nodes, 1, index)
         IN  IF ~s1.ok THEN Panicked([listed EXCEPT !.node_data = s1.nd], s1.at)
             ELSE IF ~s2.ok
             THEN Panicked([listed EXCEPT !.node_data = s1.nd, !.edge_data = s2.ed], s2.at)
             ELSE Returned([listed EXCEPT
                                !.node_data = s1.nd,
                                !.edge_data = s2.ed,
                                !.blocks = Push(@, [component  |-> component,
                                                    nodes      |-> nodes,
                                                    cut_nodes  |-> <<>>,
                                                    spqr_nodes |-> <<>>,
                                                    spqr_edges |-> <<>>])],
                           index)

\* ------------------------------------------------------------ add_cut_node

\* Loop of add_cut_node and of build over the blocks of a new cut node
\* (builder.rs 173-176, 348-353); st is [blocks, ok, at].  The duplicate
\* check is a debug_assert!, at the given line.
RECURSIVE RegisterCutNodeOnBlocks(_, _, _, _, _, _)
RegisterCutNodeOnBlocks(st, block_list, i, cut_node_index, debug, line) ==
    IF i > Len(block_list) THEN st
    ELSE LET block_index == block_list[i] IN
         IF debug /\ Contains(st.blocks[block_index + 1].cut_nodes, cut_node_index)
         THEN Stop(st, line)
         ELSE RegisterCutNodeOnBlocks(
                  [st EXCEPT !.blocks[block_index + 1].cut_nodes = Push(@, cut_node_index)],
                  block_list, i + 1, cut_node_index, debug, line)

\* SPQRDecompositionBuilder::add_cut_node
add_cut_node(b, cut_node, block_list, debug) ==
    IF block_list = <<>> THEN Panicked(b, 161)
    ELSE LET cut_node_index == NextIndex(b.cut_nodes) IN
         IF ~IsNone(b.node_data[cut_node].cut_node_index) THEN Panicked(b, 164)
         ELSE LET marked == [b EXCEPT !.node_data[cut_node].cut_node_index =
                                          OptSome(cut_node_index)]
                  component_index == b.node_data[cut_node].component_index
              IN  \* component_index.unwrap()
                  IF IsNone(component_index) THEN Panicked(marked, 167)
                  ELSE LET listed == [marked EXCEPT !.components[component_index + 1].cut_nodes =
                                                        Push(@, cut_node_index)]
                           st == RegisterCutNodeOnBlocks(
                                     [blocks |-> listed.blocks, ok |-> TRUE, at |-> 0],
                                     block_list, 1, cut_node_index, debug, 174)
                           registered == [listed EXCEPT !.blocks = st.blocks]
                       IN  IF ~st.ok THEN Panicked(registered, st.at)
                           ELSE Returned([registered EXCEPT !.cut_nodes =
                                              Push(@, [component       |-> component_index,
                                                       node            |-> cut_node,
                                                       adjacent_blocks |-> block_list])],
                                         cut_node_index)

\* ----------------------------------------------------------- add_spqr_node

\* Loop of add_spqr_node over the listed nodes (builder.rs 200-208); st is
\* [nd, ok].
RECURSIVE AssignSPQRNode(_, _, _, _, _, _)

AssignSPQRNode_NoRepeatCheck(st, nodes, i, block, block_component, index) ==
    IF i > Len(nodes) THEN st
    ELSE LET node == nodes[i] IN
         IF st.nd[node].component_index /= OptSome(block_component) THEN Stop(st, 201)
         ELSE IF ~Contains(st.nd[node].block_indices, block) THEN Stop(st, 205)
         ELSE AssignSPQRNode([st EXCEPT !.nd[node].spqr_node_indices = Push(@, index)],
                             nodes, i + 1, block, block_component, index)

AssignSPQRNode_AnyBlock(st, nodes, i, block, block_component, index) ==
    IF i > Len(nodes) THEN st
    ELSE LET node == nodes[i] IN
         IF st.nd[node].component_index /= OptSome(block_component) THEN Stop(st, 201)
         ELSE IF Contains(st.nd[node].spqr_node_indices, index) THEN Stop(st, 206)
         ELSE AssignSPQRNode([st EXCEPT !.nd[node].spqr_node_indices = Push(@, index)],
                             nodes, i + 1, block, block_component, index)

AssignSPQRNode(st, nodes, i, block, block_component, index) ==
    IF i > Len(nodes) THEN st
    ELSE LET node == nodes[i] IN
         IF st.nd[node].component_index /= OptSome(block_component) THEN Stop(st, 201)
         ELSE IF ~Contains(st.nd[node].block_indices, block) THEN Stop(st, 205)
         ELSE IF Contains(st.nd[node].spqr_node_indices, index) THEN Stop(st, 206)
         ELSE AssignSPQRNode([st EXCEPT !.nd[node].spqr_node_indices = Push(@, index)],
                             nodes, i + 1, block, block_component, index)

add_spqr_node_MinOne(b, block, nodes, spqr_node_type) ==
    IF ~(Len(nodes) >= 1) THEN Panicked(b, 195)
    ELSE LET index == NextIndex(b.spqr_nodes)
             listed == [b EXCEPT !.blocks[block + 1].spqr_nodes = Push(@, index)]
             st == AssignSPQRNode([nd |-> b.node_data, ok |-> TRUE, at |-> 0], nodes, 1,
                                  block, b.blocks[block + 1].component, index)
             touched == [listed EXCEPT !.node_data = st.nd]
         IN  IF ~st.ok THEN Panicked(touched, st.at)
             ELSE Returned([touched EXCEPT !.spqr_nodes =
                                Push(@, [block          |-> block,
                                         nodes          |-> nodes,
                                         edges          |-> <<>>,
                                         spqr_node_type |-> spqr_node_type,
                                         spqr_edges     |-> <<>>])],
                           index)

\* SPQRDecompositionBuilder::add_spqr_node
add_spqr_node(b, block, nodes, spqr_node_type) ==
    IF ~(Len(nodes) >= 2) THEN Panicked(b, 195)
    ELSE LET index == NextIndex(b.spqr_nodes)
             listed == [b EXCEPT !.blocks[block + 1].spqr_nodes = Push(@, index)]
             st == AssignSPQRNode([nd |-> b.node_data, ok |-> TRUE, at |-> 0], nodes, 1,
                                  block, b.blocks[block + 1].component, index)
             touched == [listed EXCEPT !.node_data = st.nd]
         IN  IF ~st.ok THEN Panicked(touched, st.at)
             ELSE Returned([touched EXCEPT !.spqr_nodes =
                                Push(@, [block          |-> block,
                                         nodes          |-> nodes,
                                         edges          |-> <<>>,
                                         spqr_node_type |-> spqr_node_type,
                                         spqr_edges     |-> <<>>])],
                           index)

\* --------------------------------------------------- add_edge_to_spqr_node

add_edge_to_spqr_node_Replace(b, g, edge, spqr_node) ==
    LET a == EdgeEndpoints(g, edge)[1]
        c == EdgeEndpoints(g, edge)[2]
    IN  IF ~Contains(b.node_data[a].spqr_node_indices, spqr_node) THEN Panicked(b, 231)
        ELSE IF ~Contains(b.node_data[c].spqr_node_indices, spqr_node) THEN Panicked(b, 232)
        ELSE Returned([b EXCEPT !.edge_data[edge].spqr_node_index = OptSome(spqr_node),
                                !.spqr_nodes[spqr_node + 1].edges = Push(@, edge)],
                      OptNone)

add_edge_to_spqr_node_AnyNode(b, g, edge, spqr_node) ==
    IF ~IsNone(b.edge_data[edge].spqr_node_index) THEN Panicked(b, 228)
    ELSE Returned([b EXCEPT !.edge_data[edge].spqr_node_index = OptSome(spqr_node),
                            !.spqr_nodes[spqr_node + 1].edges = Push(@, edge)],
                  OptNone)

add_edge_to_spqr_node_OneEndpoint(b, g, edge, spqr_node) ==
    LET a == EdgeEndpoints(g, edge)[1]
    IN  IF ~IsNone(b.edge_data[edge].spqr_node_index) THEN Panicked(b, 228)
        ELSE IF ~Contains(b.node_data[a].spqr_node_indices, spqr_node) THEN Panicked(b, 231)
        ELSE Returned([b EXCEPT !.edge_data[edge].spqr_node_index = OptSome(spqr_node),
                                !.spqr_nodes[spqr_node + 1].edges = Push(@, edge)],
                      OptNone)

\* SPQRDecompositionBuilder::add_edge_to_spqr_node
add_edge_to_spqr_node(b, g, edge, spqr_node) ==
    LET a == EdgeEndpoints(g, edge)[1]
        c == EdgeEndpoints(g, edge)[2]
    IN  IF ~IsNone(b.edge_data[edge].spqr_node_index) THEN Panicked(b, 228)
        ELSE IF ~Contains(b.node_data[a].spqr_node_indices, spqr_node) THEN Panicked(b, 231)
        ELSE IF ~Contains(b.node_data[c].spqr_node_indices, spqr_node) THEN Panicked(b, 232)
        ELSE Returned([b EXCEPT !.edge_data[edge].spqr_node_index = OptSome(spqr_node),
                                !.spqr_nodes[spqr_node + 1].edges = Push(@, edge)],
                      OptNone)

\* ----------------------------------------------------------- add_spqr_edge

PoleAssertion_SkipLast(b, endpoints, virtual_edge) ==
    IF ~Contains(b.node_data[virtual_edge[1]].spqr_node_indices, endpoints[1]) THEN 264
    ELSE IF ~Contains(b.node_data[virtual_edge[1]].spqr_node_indices, endpoints[2]) THEN 269
    ELSE IF ~Contains(b.node_data[virtual_edge[2]].spqr_node_indices, endpoints[1]) THEN 274
    ELSE 0

\* The four pole assertions of add_spqr_edge (builder.rs 264-283): the line
\* of the first one that fails, 0 if none does.
PoleAssertion(b, endpoints, virtual_edge) ==
    IF ~Contains(b.node_data[virtual_edge[1]].spqr_node_indices, endpoints[1]) THEN 264
    ELSE IF ~Contains(b.node_data[virtual_edge[1]].spqr_node_indices, endpoints[2]) THEN 269
    ELSE IF ~Contains(b.node_data[virtual_edge[2]].spqr_node_indices, endpoints[1]) THEN 274
    ELSE IF ~Contains(b.node_data[virtual_edge[2]].spqr_node_indices, endpoints[2]) THEN 279
    ELSE 0

add_spqr_edge_TrustBlock(b, block, endpoints, virtual_edge) ==
    LET block_u == b.spqr_nodes[endpoints[1] + 1].block
        the_block == IF IsNone(block) THEN block_u ELSE block
        index == NextIndex(b.spqr_edges)
        listed == [b EXCEPT !.blocks[the_block + 1].spqr_edges = Push(@, index)]
        pole == PoleAssertion(b, endpoints, virtual_edge)
    IN  IF pole /= 0 THEN Panicked(listed, pole)
        ELSE Returned([listed EXCEPT
                          !.spqr_nodes[endpoints[1] + 1].spqr_edges = Push(@, index),
                          !.spqr_nodes[endpoints[2] + 1].spqr_edges = Push(@, index),
                          !.spqr_edges = Push(@, [endpoints    |-> endpoints,
                                                  virtual_edge |-> virtual_edge])],
                      index)

\* SPQRDecompositionBuilder::add_spqr_edge; block is an optional block index.
add_spqr_edge(b, block, endpoints, virtual_edge) ==
    LET block_u == b.spqr_nodes[endpoints[1] + 1].block
        block_v == b.spqr_nodes[endpoints[2] + 1].block
    IN  \* block.unwrap_or_else(..)
        IF IsNone(block) /\ block_u /= block_v THEN Panicked(b, 255)
        ELSE LET the_block == IF IsNone(block) THEN block_u ELSE block
                 index == NextIndex(b.spqr_edges)
             IN  IF block_u /= the_block THEN Panicked(b, 260)
                 ELSE IF block_v /= the_block THEN Panicked(b, 261)
                 ELSE LET listed == [b EXCEPT !.blocks[the_block + 1].spqr_edges =
                                                  Push(@, index)]
                          pole == PoleAssertion(b, endpoints, virtual_edge)
                      IN  IF pole /= 0 THEN Panicked(listed, pole)
                          ELSE IF Contains(b.spqr_nodes[endpoints[1] + 1].spqr_edges, index)
                          THEN Panicked(listed, 285)
                          ELSE IF Contains(b.spqr_nodes[endpoints[2] + 1].spqr_edges, index)
                          THEN Panicked(listed, 286)
                          ELSE LET pushed_u == [listed EXCEPT
                                                   !.spqr_nodes[endpoints[1] + 1].spqr_edges =
                                                       Push(@, index)]
                                   pushed_v == [pushed_u EXCEPT
                                                   !.spqr_nodes[endpoints[2] + 1].spqr_edges =
                                                       Push(@, index)]
                               IN  Returned([pushed_v EXCEPT !.spqr_edges =
                                                 Push(@, [endpoints    |-> endpoints,
                                                          virtual_edge |-> virtual_edge])],
                                            index)

\* ------------------------------------------------------------------- build

\* The sanity checks at the head of build on one node (builder.rs 310-312)
\* and on one edge (builder.rs 324-326), all of them debug_assert!: the line
\* of the first that fails, 0 if none does.
NodeAssertion_NoSPQRCheck(nd) ==
    IF ~IsSome(nd.component_index) THEN 310
    ELSE IF nd.block_indices = <<>> THEN 311
    ELSE 0

NodeAssertion(nd) ==
    IF ~IsSome(nd.component_index) THEN 310
    ELSE IF nd.block_indices = <<>> THEN 311
    ELSE IF nd.spqr_node_indices = <<>> THEN 312
    ELSE 0

EdgeAssertion(ed) ==
    IF ~IsSome(ed.component_index) THEN 324
    ELSE IF ~IsSome(ed.block_index) THEN 325
    ELSE IF ~IsSome(ed.spqr_node_index) THEN 326
    ELSE 0

\* The first sanity check of build that fails, nodes before edges, each in
\* index order (builder.rs 301-327); 0 if all hold.
RECURSIVE FirstFailing(_, _, _)
FirstFailing(lines, i, n) ==
    IF i >= n THEN 0
    ELSE IF lines[i] /= 0 THEN lines[i]
    ELSE FirstFailing(lines, i + 1, n)

SanityChecks(b, g) ==
    LET node_line == FirstFailing([n \in NodeIndices(g) |-> NodeAssertion(b.node_data[n])],
                                  0, NodeCount(g))
    IN  IF node_line /= 0 THEN node_line
        ELSE FirstFailing([e \in EdgeIndices(g) |-> EdgeAssertion(b.edge_data[e])],
                          0, EdgeCount(g))

InferCutNode_FirstBlock(st, node_index, debug) ==
    LET b == st.b
        block_indices == b.node_data[node_index].block_indices
        cut_node_index == NextIndex(b.cut_nodes)
    IN  [at |-> 0,
         b  |-> [b EXCEPT
                    !.components[b.node_data[node_index].component_index + 1].cut_nodes =
                        Push(@, cut_node_index),
                    !.blocks[block_indices[1] + 1].cut_nodes = Push(@, cut_node_index),
                    !.node_data[node_index].cut_node_index = OptSome(cut_node_index),
                    !.cut_nodes = Push(@, [component       |-> b.node_data[node_index].component_index,
                                           node            |-> node_index,
                                           adjacent_blocks |-> block_indices])],
         ok |-> TRUE]

\* The cut node build creates for one node (builder.rs 336-364); st is
\* [b, ok, at].
InferCutNode(st, node_index, debug) ==
    LET b == st.b
        block_indices == b.node_data[node_index].block_indices
        component_index == b.node_data[node_index].component_index
        cut_node_index == NextIndex(b.cut_nodes)
    IN  \* component_index.unwrap()
        IF IsNone(component_index) THEN Stop(st, 341)
        ELSE LET listed == [b EXCEPT !.components[component_index + 1].cut_nodes =
                                         Push(@, cut_node_index)]
                 reg == RegisterCutNodeOnBlocks(
                            [blocks |-> listed.blocks, ok |-> TRUE, at |-> 0],
                            block_indices, 1, cut_node_index, debug, 349)
                 registered == [listed EXCEPT !.blocks = reg.blocks]
             IN  IF ~reg.ok THEN [b |-> registered, ok |-> FALSE, at |-> reg.at]
                 ELSE IF ~IsNone(registered.node_data[node_index].cut_node_index)
                 THEN [b |-> registered, ok |-> FALSE, at |-> 355]
                 ELSE [at |-> 0,
                       b  |-> [registered EXCEPT
                                  !.node_data[node_index].cut_node_index =
                                      OptSome(cut_node_index),
                                  !.cut_nodes =
                                      Push(@, [component       |-> component_index,
                                               node            |-> node_index,
                                               adjacent_blocks |-> block_indices])],
                       ok |-> TRUE]

\* The loop of build that identifies cut nodes (builder.rs 330-365), from
\* node n on, in the order of node_indices().
RECURSIVE IdentifyCutNodes(_, _, _, _)

IdentifyCutNodes_ThreeBlocks(st, g, n, debug) ==
    IF n >= NodeCount(g) \/ ~st.ok THEN st
    ELSE IF IsSome(st.b.node_data[n].cut_node_index)
    THEN IdentifyCutNodes(st, g, n + 1, debug)
    ELSE IF Len(st.b.node_data[n].block_indices) >= 3
    THEN IdentifyCutNodes(InferCutNode(st, n, debug), g, n + 1, debug)
    ELSE IdentifyCutNodes(st, g, n + 1, debug)

IdentifyCutNodes(st, g, n, debug) ==
    IF n >= NodeCount(g) \/ ~st.ok THEN st
    ELSE IF IsSome(st.b.node_data[n].cut_node_index)
    THEN IdentifyCutNodes(st, g, n + 1, debug)
    ELSE IF Len(st.b.node_data[n].block_indices) >= 2
    THEN IdentifyCutNodes(InferCutNode(st, n, debug), g, n + 1, debug)
    ELSE IdentifyCutNodes(st, g, n + 1, debug)

\* SPQRDecompositionNodeDataBuilder::build; component_index.unwrap()
\* panics on an unset component: the line of the panic, or 0.
NodeDataBuildPanics(nd) == IF IsNone(nd.component_index) THEN 399 ELSE 0

NodeDataBuild(nd) ==
    [component_index   |-> nd.component_index,
     block_indices     |-> nd.block_indices,
     cut_node_index    |-> nd.cut_node_index,
     spqr_node_indices |-> nd.spqr_node_indices,
     extra_data        |-> nd.extra_data]

\* SPQRDecompositionEdgeDataBuilder::build; each unwrap() panics on an
\* unset index: the line of the panic, or 0.
EdgeDataBuildPanics(ed) ==
    IF IsNone(ed.component_index) THEN 411
    ELSE IF IsNone(ed.block_index) THEN 412
    ELSE IF IsNone(ed.spqr_node_index) THEN 413
    ELSE 0

EdgeDataBuild_Labelled(ed) ==
    [component_index |-> ed.component_index,
     block_index     |-> ed.block_index,
     spqr_node_index |-> ed.spqr_node_index,
     extra_data      |-> <<ed.spqr_node_index>>]

EdgeDataBuild(ed) ==
    [component_index |-> ed.component_index,
     block_index     |-> ed.block_index,
     spqr_node_index |-> ed.spqr_node_index,
     extra_data      |-> ed.extra_data]

\* SPQRDecompositionBuilder::build: [ok, at, b, d], b the builder as build
\* leaves it and d the decomposition it returns.
build(b, g, debug) ==
    IF debug /\ SanityChecks(b, g) /= 0
    THEN [ok |-> FALSE, at |-> SanityChecks(b, g), b |-> b, d |-> <<>>]
    ELSE LET st == IdentifyCutNodes([b |-> b, ok |-> TRUE, at |-> 0], g, 0, debug)
             node_line == FirstFailing([n \in NodeIndices(g) |->
                                           NodeDataBuildPanics(st.b.node_data[n])],
                                       0, NodeCount(g))
             edge_line == FirstFailing([e \in EdgeIndices(g) |->
                                           EdgeDataBuildPanics(st.b.edge_data[e])],
                                       0, EdgeCount(g))
         IN
         IF ~st.ok THEN [ok |-> FALSE, at |-> st.at, b |-> st.b, d |-> <<>>]
         ELSE IF node_line /= 0 THEN [ok |-> FALSE, at |-> node_line, b |-> st.b, d |-> <<>>]
         ELSE IF edge_line /= 0 THEN [ok |-> FALSE, at |-> edge_line, b |-> st.b, d |-> <<>>]
         ELSE [ok |-> TRUE,
               at |-> 0,
               b  |-> st.b,
               d  |-> [components |-> st.b.components,
                       blocks     |-> st.b.blocks,
                       cut_nodes  |-> st.b.cut_nodes,
                       spqr_nodes |-> st.b.spqr_nodes,
                       spqr_edges |-> st.b.spqr_edges,
                       node_data  |-> [n \in NodeIndices(g) |->
                                          NodeDataBuild(st.b.node_data[n])],
                       edge_data  |-> [e \in EdgeIndices(g) |->
                                          EdgeDataBuild(st.b.edge_data[e])]]]

\* ----------------------------------------------------- decomposition access

\* SPQRDecomposition::is_cut_node
is_cut_node(d, node_index) == IsSome(d.node_data[node_index].cut_node_index)

\* SPQRDecomposition::has_incident_virtual_edge
has_incident_virtual_edge(d, node_index) ==
    Len(d.node_data[node_index].spqr_node_indices) >= 2

\* An Option<(NodeIndex, NodeIndex)> a call returned, or the call's panic.
SomePoles(u, v) == [ok |-> TRUE, some |-> TRUE, poles |-> <<u, v>>]
NonePoles == [ok |-> TRUE, some |-> FALSE, poles |-> <<>>]
PolesPanic == [ok |-> FALSE, some |-> FALSE, poles |-> <<>>]

p_node_poles_Swapped(spqr_node) ==
    IF spqr_node.spqr_node_type = "PNode"
    THEN IF Len(spqr_node.nodes) < 2 THEN PolesPanic
         ELSE SomePoles(spqr_node.nodes[2], spqr_node.nodes[1])
    ELSE NonePoles

\* SPQRNode::p_node_poles; nodes[0] and nodes[1] index the vertex list and
\* panic out of bounds.
p_node_poles(spqr_node) ==
    IF spqr_node.spqr_node_type = "PNode"
    THEN IF Len(spqr_node.nodes) < 2 THEN PolesPanic
         ELSE SomePoles(spqr_node.nodes[1], spqr_node.nodes[2])
    ELSE NonePoles

\* ------------------------------------------------------------ binary codec

\* std::mem::size_of::<usize>() on the 64-bit targets the crate is built
\* for, and the size of an index of the u8 graphs of the crate's tests.
UsizeBytes == 8
IndexBytes == 1

\* The concatenation of a sequence of sequences.
RECURSIVE Flatten(_)
Flatten(seqs) == IF seqs = <<>> THEN <<>> ELSE Head(seqs) \o Flatten(Tail(seqs))

\* to_ne_bytes / the raw memory of an integer of the given width, on a
\* little-endian target.
RECURSIVE to_ne_bytes(_, _)
to_ne_bytes(value, width) ==
    IF width = 0 THEN <<>> ELSE <<value % 256>> \o to_ne_bytes(value \div 256, width - 1)

\* from_ne_bytes.  A value of 2^24 or more stands for itself or any larger
\* one: it is only ever compared with lengths far below it.
RECURSIVE from_ne_bytes(_)
from_ne_bytes(bytes) ==
    IF bytes = <<>> THEN 0
    ELSE IF Len(bytes) > 3
    THEN IF bytes[Len(bytes)] = 0 THEN from_ne_bytes(SubSeq(bytes, 1, Len(bytes) - 1))
         ELSE 256 * 256 * 256
    ELSE Head(bytes) + 256 * from_ne_bytes(Tail(bytes))

\* fn write_binary<T>: the raw memory of one index.
write_binary(value) == to_ne_bytes(value, IndexBytes)

\* fn write_binary<T> on a pair of indices: the two fields in order, without
\* padding.
write_binary_pair(pair) == write_binary(pair[1]) \o write_binary(pair[2])

write_usize_binary(value) == to_ne_bytes(value, UsizeBytes)

\* fn write_slice_binary on a slice of indices: the length, then the raw
\* memory of the elements.
write_slice_binary(slice) ==
    write_usize_binary(Len(slice))
        \o Flatten([i \in 1 .. Len(slice) |-> write_binary(slice[i])])

\* fn write_str_binary: the length and the bytes of the string.
write_str_binary(str) == write_usize_binary(Len(str)) \o str

SPQRNodeType_write_binary_RAsP(spqr_node_type) ==
    IF spqr_node_type = "SNode" THEN <<0>> ELSE <<1>>

SPQRNodeType_write_binary(spqr_node_type) ==
    IF spqr_node_type = "SNode" THEN <<0>>
    ELSE IF spqr_node_type = "PNode" THEN <<1>>
    ELSE <<2>>

Component_write_binary(component) ==
    write_slice_binary(component.nodes)
        \o write_slice_binary(component.blocks)
        \o write_slice_binary(component.cut_nodes)

Block_write_binary(block) ==
    write_binary(block.component)
        \o write_slice_binary(block.nodes)
        \o write_slice_binary(block.cut_nodes)
        \o write_slice_binary(block.spqr_nodes)
        \o write_slice_binary(block.spqr_edges)

CutNode_write_binary(cut_node) ==
    write_binary(cut_node.component)
        \o write_binary(cut_node.node)
        \o write_slice_binary(cut_node.adjacent_blocks)

SPQRNode_write_binary(spqr_node) ==
    write_binary(spqr_node.block)
        \o write_slice_binary(spqr_node.nodes)
        \o write_slice_binary(spqr_node.edges)
        \o SPQRNodeType_write_binary(spqr_node.spqr_node_type)
        \o write_slice_binary(spqr_node.spqr_edges)

SPQREdge_write_binary(spqr_edge) ==
    write_binary_pair(spqr_edge.endpoints) \o write_binary_pair(spqr_edge.virtual_edge)

NodeData_write_binary(node_data) ==
    write_binary(node_data.component_index)
        \o write_slice_binary(node_data.block_indices)
        \o write_binary(node_data.cut_node_index)
        \o write_slice_binary(node_data.spqr_node_indices)
        \o write_str_binary(node_data.extra_data)

EdgeData_write_binary(edge_data) ==
    write_binary(edge_data.component_index)
        \o write_binary(edge_data.block_index)
        \o write_binary(edge_data.spqr_node_index)
        \o write_str_binary(edge_data.extra_data)

\* One table of write_binary: the element count, then the elements in index
\* order.  The arenas are sequences, the node and edge tables functions over
\* the indices from 0.
Item_write_binary(kind, item) ==
    CASE kind = "Component" -> Component_write_binary(item)
      [] kind = "Block" -> Block_write_binary(item)
      [] kind = "CutNode" -> CutNode_write_binary(item)
      [] kind = "SPQRNode" -> SPQRNode_write_binary(item)
      [] kind = "SPQREdge" -> SPQREdge_write_binary(item)
      [] kind = "NodeData" -> NodeData_write_binary(item)
      [] kind = "EdgeData" -> EdgeData_write_binary(item)

Table_write_binary(kind, items) ==
    write_usize_binary(Len(items))
        \o Flatten([i \in 1 .. Len(items) |-> Item_write_binary(kind, items[i])])

\* A TaggedVec over node or edge indices, as the sequence of its values.
Values(table) == [i \in 1 .. Cardinality(DOMAIN table) |-> table[i - 1]]

\* SPQRDecomposition::write_binary
SPQRDecomposition_write_binary(d) ==
    Table_write_binary("Component", d.components)
        \o Table_write_binary("Block", d.blocks)
        \o Table_write_binary("CutNode", d.cut_nodes)
        \o Table_write_binary("SPQRNode", d.spqr_nodes)
        \o Table_write_binary("SPQREdge", d.spqr_edges)
        \o Table_write_binary("NodeData", Values(d.node_data))
        \o Table_write_binary("EdgeData", Values(d.edge_data))

\* What a read returns: Ok(value) with the reader advanced to pos, an
\* std::io::Error, or a panic at a line of binary.rs.
ReadOk(value, pos) == [ok |-> TRUE, error |-> "", at |-> 0, value |-> value, pos |-> pos]
ReadErr(error) == [ok |-> FALSE, error |-> error, at |-> 0, value |-> <<>>, pos |-> 0]
ReadPanic(line) == [ok |-> FALSE, error |-> "panic", at |-> line, value |-> <<>>, pos |-> 0]

\* The element of a singleton set.  A result that several places use is
\* bound as the element of a singleton, {body(r) : r \in {result}}, which
\* computes it once.
The(S) == CHOOSE v \in S : TRUE

\* Read::read_exact on a slice reader at position pos.
read_exact(bytes, pos, n) ==
    IF pos + n - 1 > Len(bytes) THEN ReadErr("UnexpectedEof")
    ELSE ReadOk(SubSeq(bytes, pos, pos + n - 1), pos + n)

\* fn read_binary<T> for one index.
read_binary(bytes, pos) ==
    The({ IF r.ok THEN ReadOk(from_ne_bytes(r.value), r.pos) ELSE r :
          r \in {read_exact(bytes, pos, IndexBytes)} })

\* fn read_binary<T> for a pair of indices.
read_binary_pair(bytes, pos) ==
    The({ IF r.ok
          THEN ReadOk(<<from_ne_bytes(SubSeq(r.value, 1, IndexBytes)),
                        from_ne_bytes(SubSeq(r.value, IndexBytes + 1, 2 * IndexBytes))>>,
                      r.pos)
          ELSE r :
          r \in {read_exact(bytes, pos, 2 * IndexBytes)} })

read_usize_binary(bytes, pos) ==
    The({ IF r.ok THEN ReadOk(from_ne_bytes(r.value), r.pos) ELSE r :
          r \in {read_exact(bytes, pos, UsizeBytes)} })

\* The elements of a vector from their raw memory.
Elements(raw, len, size) ==
    [i \in 1 .. len |-> from_ne_bytes(SubSeq(raw, (i - 1) * size + 1, i * size))]

\* fn read_vec_binary for elements of the given size.
read_vec_binary(bytes, pos, size) ==
    The({ IF ~len.ok THEN len
          ELSE The({ IF ~raw.ok THEN raw
                     ELSE ReadOk(Elements(raw.value, len.value, size), raw.pos) :
                     raw \in {read_exact(bytes, len.pos, len.value * size)} }) :
          len \in {read_usize_binary(bytes, pos)} })

\* The bytes from position i on are well-formed UTF-8 (String::from_utf8).
Continuation(b) == b >= 128 /\ b <= 191

RECURSIVE ValidUtf8From(_, _)
ValidUtf8From(bytes, i) ==
    LET n == Len(bytes) - i + 1
        b == bytes[i]
        second == bytes[i + 1]
    IN  IF n <= 0 THEN TRUE
        ELSE IF b < 128 THEN ValidUtf8From(bytes, i + 1)
        ELSE IF b >= 194 /\ b <= 223
        THEN n >= 2 /\ Continuation(second) /\ ValidUtf8From(bytes, i + 2)
        ELSE IF b >= 224 /\ b <= 239
        THEN /\ n >= 3
             /\ Continuation(second)
             /\ b = 224 => second >= 160
             /\ b = 237 => second <= 159
             /\ Continuation(bytes[i + 2])
             /\ ValidUtf8From(bytes, i + 3)
        ELSE IF b >= 240 /\ b <= 244
        THEN /\ n >= 4
             /\ Continuation(second)
             /\ b = 240 => second >= 144
             /\ b = 244 => second <= 143
             /\ Continuation(bytes[i + 2])
             /\ Continuation(bytes[i + 3])
             /\ ValidUtf8From(bytes, i + 4)
        ELSE FALSE

\* fn read_string_binary; from_utf8(..).unwrap() panics on bytes that are
\* not UTF-8.
read_string_binary(bytes, pos) ==
    The({ IF ~r.ok THEN r
          ELSE IF ~ValidUtf8From(r.value, 1) THEN ReadPanic(311)
          ELSE r :
          r \in {read_vec_binary(bytes, pos, 1)} })

SPQRNodeType_read_binary(bytes, pos) ==
    The({ IF ~r.ok THEN r
          ELSE IF r.value[1] = 0 THEN ReadOk("SNode", r.pos)
          ELSE IF r.value[1] = 1 THEN ReadOk("PNode", r.pos)
          ELSE IF r.value[1] = 2 THEN ReadOk("RNode", r.pos)
          ELSE ReadPanic(200) :
          r \in {read_exact(bytes, pos, 1)} })

\* One field of a struct, by the function that reads it.
Field_read_binary(how, bytes, pos) ==
    CASE how = "read_binary" -> read_binary(bytes, pos)
      [] how = "read_binary_pair" -> read_binary_pair(bytes, pos)
      [] how = "read_vec_binary" -> read_vec_binary(bytes, pos, IndexBytes)
      [] how = "read_string_binary" -> read_string_binary(bytes, pos)
      [] how = "SPQRNodeType" -> SPQRNodeType_read_binary(bytes, pos)

\* The fields of a struct literal, read in order, the first failure
\* returned (the ? operator): the value is the sequence of field values.
RECURSIVE Fields_read_binary(_, _, _, _)
Fields_read_binary(hows, bytes, pos, values) ==
    IF Len(values) = Len(hows) THEN ReadOk(values, pos)
    ELSE The({ IF r.ok THEN Fields_read_binary(hows, bytes, r.pos, Append(values, r.value))
               ELSE r :
               r \in {Field_read_binary(hows[Len(values) + 1], bytes, pos)} })

\* A struct from the values of its fields, in the order its read_binary
\* reads them.
Struct(kind, v) ==
    CASE kind = "Component" ->
             [nodes |-> v[1], blocks |-> v[2], cut_nodes |-> v[3]]
      [] kind = "Block" ->
             [component |-> v[1], nodes |-> v[2], cut_nodes |-> v[3], spqr_nodes |-> v[4],
              spqr_edges |-> v[5]]
      [] kind = "CutNode" ->
             [component |-> v[1], node |-> v[2], adjacent_blocks |-> v[3]]
      [] kind = "SPQRNode" ->
             [block |-> v[1], nodes |-> v[2], edges |-> v[3], spqr_node_type |-> v[4],
              spqr_edges |-> v[5]]
      [] kind = "SPQREdge" ->
             [endpoints |-> v[1], virtual_edge |-> v[2]]
      [] kind = "NodeData" ->
             [component_index |-> v[1], block_indices |-> v[2], cut_node_index |-> v[3],
              spqr_node_indices |-> v[4], extra_data |-> v[5]]
      [] kind = "EdgeData" ->
             [component_index |-> v[1], block_index |-> v[2], spqr_node_index |-> v[3],
              extra_data |-> v[4]]

\* How the read_binary of each struct reads its fields.
FieldReaders(kind) ==
    CASE kind = "Component" ->
             <<"read_vec_binary", "read_vec_binary", "read_vec_binary">>
      [] kind = "Block" ->
             <<"read_binary", "read_vec_binary", "read_vec_binary", "read_vec_binary",
               "read_vec_binary">>
      [] kind = "CutNode" ->
             <<"read_binary", "read_binary", "read_vec_binary">>
      [] kind = "SPQRNode" ->
             <<"read_binary", "read_vec_binary", "read_vec_binary", "SPQRNodeType",
               "read_vec_binary">>
      [] kind = "SPQREdge" ->
             <<"read_binary_pair", "read_binary_pair">>
      [] kind = "NodeData" ->
             <<"read_binary", "read_vec_binary", "read_binary", "read_vec_binary",
               "read_string_binary">>
      [] kind = "EdgeData" ->
             <<"read_binary", "read_binary", "read_binary", "read_string_binary">>

\* Component::read_binary, Block::read_binary, ... EdgeData::read_binary.
Item_read_binary(kind, bytes, pos) ==
    The({ IF r.ok THEN ReadOk(Struct(kind, r.value), r.pos) ELSE r :
          r \in {Fields_read_binary(FieldReaders(kind), bytes, pos, <<>>)} })

\* (0..amount).map(|_| T::read_binary(..)).collect::<io::Result<_>>():
\* amount more elements are read after items, in order, and the first
\* failure is returned.  The elements are read as a first and a second half,
\* so that the depth of the evaluation grows with the logarithm of amount.
RECURSIVE Items_read_binary(_, _, _, _, _)
Items_read_binary(kind, bytes, pos, amount, items) ==
    IF amount = 0 THEN ReadOk(items, pos)
    ELSE IF amount = 1
    THEN The({ IF r.ok THEN ReadOk(Append(items, r.value), r.pos) ELSE r :
               r \in {Item_read_binary(kind, bytes, pos)} })
    ELSE The({ IF first.ok
               THEN Items_read_binary(kind, bytes, first.pos, amount - (amount \div 2),
                                      first.value)
               ELSE first :
               first \in {Items_read_binary(kind, bytes, pos, amount \div 2, items)} })

\* One table of read_binary: the amount, then that many elements.
Table_read_binary(kind, bytes, pos) ==
    The({ IF ~amount.ok THEN amount
          ELSE Items_read_binary(kind, bytes, amount.pos, amount.value, <<>>) :
          amount \in {read_usize_binary(bytes, pos)} })

\* The tables of read_binary in order, the first failure returned.
TableOrder == <<"Component", "Block", "CutNode", "SPQRNode", "SPQREdge", "NodeData", "EdgeData">>

RECURSIVE Tables_read_binary(_, _, _)
Tables_read_binary(bytes, pos, tables) ==
    IF Len(tables) = Len(TableOrder) THEN ReadOk(tables, pos)
    ELSE The({ IF r.ok THEN Tables_read_binary(bytes, r.pos, Append(tables, r.value))
               ELSE r :
               r \in {Table_read_binary(TableOrder[Len(tables) + 1], bytes, pos)} })

\* A TaggedVec over node or edge indices, from the sequence of its values.
Tagged(values) == [i \in 0 .. (Len(values) - 1) |-> values[i + 1]]

\* What reading a file returns: Ok(decomposition), Err(error), or a panic
\* at a line of the source.
Loaded(d) == [ok |-> TRUE, error |-> "", name |-> <<>>, at |-> 0, d |-> d]
LoadErr(error) == [ok |-> FALSE, error |-> error, name |-> <<>>, at |-> 0, d |-> <<>>]
LoadPanic(line) == [ok |-> FALSE, error |-> "panic", name |-> <<>>, at |-> line, d |-> <<>>]

\* An error that carries the name it is about.
LoadErrNamed(error, name) == [LoadErr(error) EXCEPT !.name = name]

\* SPQRDecomposition::read_binary
SPQRDecomposition_read_binary(bytes) ==
    The({ IF ~r.ok THEN [LoadErr(r.error) EXCEPT !.at = r.at]
          ELSE Loaded([components |-> r.value[1],
                       blocks     |-> r.value[2],
                       cut_nodes  |-> r.value[3],
                       spqr_nodes |-> r.value[4],
                       spqr_edges |-> r.value[5],
                       node_data  |-> Tagged(r.value[6]),
                       edge_data  |-> Tagged(r.value[7])]) :
          r \in {Tables_read_binary(bytes, 1, <<>>)} })

\* -------------------------------------------------------------- text codec

\* A text is the sequence of its bytes.  Printable lists the printable
\* ASCII characters in the order of their codes, from the space (32) on
\* (the backslash and the backtick by their names).
Printable ==
    <<
       " ", "!", "\"", "#", "$", "%", "&", "'", "(", ")", "*", "+", ",", "-", ".", "/",
       "0", "1", "2", "3", "4", "5", "6", "7", "8", "9", ":", ";", "<", "=", ">", "?",
       "@", "A", "B", "C", "D", "E", "F", "G", "H", "I", "J", "K", "L", "M", "N", "O",
       "P", "Q", "R", "S", "T", "U", "V", "W", "X", "Y", "Z", "[", "backslash", "]",
       "^", "_", "backtick", "a", "b", "c", "d", "e", "f", "g", "h", "i", "j", "k",
       "l", "m", "n", "o", "p", "q", "r", "s", "t", "u", "v", "w", "x", "y", "z", "{",
       "|", "}", "~"
    >>

\* The byte of a printable character, and the bytes of a string literal
\* given by its characters.
Ascii(c) == 31 + (CHOOSE i \in 1 .. Len(Printable) : Printable[i] = c)
Str(chars) == [i \in 1 .. Len(chars) |-> Ascii(chars[i])]

\* What writeln! appends to its text.
Newline == <<10>>
Line(text) == text \o Newline

\* The least and the greatest element of a non-empty set of numbers.
Min(S) == CHOOSE x \in S : \A y \in S : x <= y
Max(S) == CHOOSE x \in S : \A y \in S : x >= y

\* Display of an index (indices.rs) and of the graph's usize: decimal digits.
RECURSIVE Digits(_)
Digits(n) == IF n < 10 THEN <<48 + n>> ELSE Digits(n \div 10) \o <<48 + (n % 10)>>
Display(index) == Digits(index)

\* format!("G{component_index}") and its like: a letter and an index.
Named(letter, index) == Str(<<letter>>) \o Display(index)

\* StaticGraph::node_name and edge_name of the adjacency array.
node_name(node_index) == Named("N", node_index)
edge_name(edge_index) == Named("E", edge_index)

\* The letter of an SPQR node type in names and line types.
SPQRNodeLetter(spqr_node_type) ==
    CASE spqr_node_type = "SNode" -> "S"
      [] spqr_node_type = "PNode" -> "P"
      [] spqr_node_type = "RNode" -> "R"

\* SPQRDecomposition::spqr_node_name
spqr_node_name(d, spqr_node_index) ==
    Named(SPQRNodeLetter(d.spqr_nodes[spqr_node_index + 1].spqr_node_type), spqr_node_index)

\* The first line of a file.
Header ==
    Str(<<
            "H", " ", "v", "0", ".", "1", " ", "h", "t", "t", "p", "s", ":", "/", "/",
            "g", "i", "t", "h", "u", "b", ".", "c", "o", "m", "/", "s", "e", "b", "s",
            "c", "h", "m", "i", "/", "S", "P", "Q", "R", "-", "t", "r", "e", "e", "-",
            "f", "i", "l", "e", "-", "f", "o", "r", "m", "a", "t"
        >>)

\* write, the loop over the nodes: an N line for every annotated node.
WriteExtraData(d, g) ==
    Flatten([i \in 1 .. NodeCount(g) |->
                IF d.node_data[i - 1].extra_data /= <<>>
                THEN Line(Str(<<"N", " ">>) \o node_name(i - 1) \o Str(<<" ">>)
                          \o d.node_data[i - 1].extra_data)
                ELSE <<>>])

\* write, the loops over the nodes of a component, block or SPQR node.
WriteNodes(nodes) ==
    Flatten([i \in 1 .. Len(nodes) |-> Str(<<" ">>) \o node_name(nodes[i])])

\* write, the body of the loop over the cut nodes of a component: writeln!
\* ends the line after the node name, the block names follow on a line of
\* their own.
WriteCutNode(d, cut_node_index) ==
    Line(Str(<<"C", " ">>) \o node_name(d.cut_nodes[cut_node_index + 1].node))
        \o Flatten([i \in 1 .. Len(d.cut_nodes[cut_node_index + 1].adjacent_blocks) |->
                        Str(<<" ">>)
                            \o Named("B", d.cut_nodes[cut_node_index + 1].adjacent_blocks[i])])
        \o Newline

\* write, the body of the loop over the edges of an SPQR node.
WriteEdge(d, g, edge_index, spqr_node_index, block_index) ==
    Line(Str(<<"E", " ">>) \o edge_name(edge_index)
         \o Str(<<" ">>) \o spqr_node_name(d, spqr_node_index)
         \o Str(<<" ">>) \o Named("B", block_index)
         \o Str(<<" ">>) \o node_name(EdgeEndpoints(g, edge_index)[1])
         \o Str(<<" ">>) \o node_name(EdgeEndpoints(g, edge_index)[2])
         \o (IF d.edge_data[edge_index].extra_data /= <<>>
             THEN Str(<<" ">>) \o d.edge_data[edge_index].extra_data
             ELSE <<>>))

WriteSPQRNode_NoEdges(d, g, spqr_node_index, block_index) ==
    Line(Str(<<SPQRNodeLetter(d.spqr_nodes[spqr_node_index + 1].spqr_node_type), " ">>)
         \o spqr_node_name(d, spqr_node_index)
         \o Str(<<" ">>) \o Named("B", block_index)
         \o WriteNodes(d.spqr_nodes[spqr_node_index + 1].nodes))

\* write, the body of the loop over the SPQR nodes of a block.
WriteSPQRNode(d, g, spqr_node_index, block_index) ==
    Line(Str(<<SPQRNodeLetter(d.spqr_nodes[spqr_node_index + 1].spqr_node_type), " ">>)
         \o spqr_node_name(d, spqr_node_index)
         \o Str(<<" ">>) \o Named("B", block_index)
         \o WriteNodes(d.spqr_nodes[spqr_node_index + 1].nodes))
        \o Flatten([i \in 1 .. Len(d.spqr_nodes[spqr_node_index + 1].edges) |->
                        WriteEdge(d, g, d.spqr_nodes[spqr_node_index + 1].edges[i],
                                  spqr_node_index, block_index)])

\* write, the body of the loop over the SPQR edges of a block.
WriteSPQREdge(d, spqr_edge_index) ==
    Line(Str(<<"V", " ">>) \o Named("V", spqr_edge_index)
         \o Str(<<" ">>) \o spqr_node_name(d, d.spqr_edges[spqr_edge_index + 1].endpoints[1])
         \o Str(<<" ">>) \o spqr_node_name(d, d.spqr_edges[spqr_edge_index + 1].endpoints[2])
         \o Str(<<" ">>) \o node_name(d.spqr_edges[spqr_edge_index + 1].virtual_edge[1])
         \o Str(<<" ">>) \o node_name(d.spqr_edges[spqr_edge_index + 1].virtual_edge[2]))

\* write, the body of the loop over the blocks of a component.
WriteBlock(d, g, block_index, component_index) ==
    Line(Str(<<"B", " ">>) \o Named("B", block_index)
         \o Str(<<" ">>) \o Named("G", component_index)
         \o WriteNodes(d.blocks[block_index + 1].nodes))
        \o Flatten([i \in 1 .. Len(d.blocks[block_index + 1].spqr_nodes) |->
                        WriteSPQRNode(d, g, d.blocks[block_index + 1].spqr_nodes[i],
                                      block_index)])
        \o Flatten([i \in 1 .. Len(d.blocks[block_index + 1].spqr_edges) |->
                        WriteSPQREdge(d, d.blocks[block_index + 1].spqr_edges[i])])

\* write, the body of the loop over the components: the G line, the cut
\* nodes of the component, then its blocks.
WriteComponent(d, g, component_index) ==
    Line(Str(<<"G", " ">>) \o Named("G", component_index)
         \o WriteNodes(d.components[component_index + 1].nodes))
        \o Flatten([i \in 1 .. Len(d.components[component_index + 1].cut_nodes) |->
                        WriteCutNode(d, d.components[component_index + 1].cut_nodes[i])])
        \o Flatten([i \in 1 .. Len(d.components[component_index + 1].blocks) |->
                        WriteBlock(d, g, d.components[component_index + 1].blocks[i],
                                   component_index)])

\* plain_spqr_file::write, into an empty buffer.
write(d, g) ==
    Line(Header)
        \o WriteExtraData(d, g)
        \o Flatten([i \in 1 .. Len(d.components) |-> WriteComponent(d, g, i - 1)])

\* ------------------------------------------------------------ reading text

\* char::is_whitespace on ASCII, as str::trim applies it.
Whitespace == {9, 10, 11, 12, 13, 32}

\* str::split(' '): the pieces between the spaces, empty pieces included.
RECURSIVE Split(_)
Split(s) ==
    IF \A k \in 1 .. Len(s) : s[k] /= 32 THEN <<s>>
    ELSE <<SubSeq(s, 1, Min({k \in 1 .. Len(s) : s[k] = 32}) - 1)>>
             \o Split(SubSeq(s, Min({k \in 1 .. Len(s) : s[k] = 32}) + 1, Len(s)))

\* [String]::join(" ")
RECURSIVE Join(_)
Join(pieces) ==
    IF pieces = <<>> THEN <<>>
    ELSE IF Len(pieces) = 1 THEN pieces[1]
    ELSE pieces[1] \o <<32>> \o Join(Tail(pieces))

\* Iterator::skip
Skip(s, n) == SubSeq(s, n + 1, Len(s))

\* What read_next_line returns: Ok(Some(tokens)) with the reader advanced to
\* pos, Ok(None), or the std::io::Error of a line that is not UTF-8.
SomeLine(tokens, pos) == [error |-> "", some |-> TRUE, line |-> tokens, pos |-> pos]
NoLine == [error |-> "", some |-> FALSE, line |-> <<>>, pos |-> 0]
LineErr == [error |-> "Io", some |-> FALSE, line |-> <<>>, pos |-> 0]

\* BufRead::lines: the line that starts at pos ends before the next line
\* feed, or with the text; a carriage return before the line feed is
\* dropped with it.  [from, to, next]: the bytes of the line and the start of
\* the line after it.
NextLine(text, pos) ==
    The({ [from |-> pos,
           to   |-> IF end <= Len(text) /\ end > pos /\ text[end - 1] = 13
                    THEN end - 2 ELSE end - 1,
           next |-> end + 1] :
          end \in {Min({i \in pos .. Len(text) : text[i] = 10} \cup {Len(text) + 1})} })

Content_KeepComment(text, l) ==
    The({ IF kept = {} THEN <<>> ELSE SubSeq(text, Min(kept), Max(kept)) :
          kept \in {{i \in l.from .. l.to : text[i] \notin Whitespace}} })

\* read_next_line, the body of its loop on one line: the line up to its
\* first '#', trimmed.
Content(text, l) ==
    The({ IF kept = {} THEN <<>> ELSE SubSeq(text, Min(kept), Max(kept)) :
          kept \in {{i \in l.from .. (Min({k \in l.from .. l.to : text[k] = 35}
                                        \cup {l.to + 1}) - 1) :
                        text[i] \notin Whitespace}} })

\* read_utils::read_next_line on a reader at position pos of the text.
RECURSIVE read_next_line(_, _)
read_next_line(text, pos) ==
    IF pos > Len(text) THEN NoLine
    ELSE The({ IF ~ValidUtf8From(SubSeq(text, l.from, l.to), 1) THEN LineErr
               ELSE The({ IF content /= <<>> THEN SomeLine(Split(content), l.next)
                          ELSE read_next_line(text, l.next) :
                          content \in {Content(text, l)} }) :
               l \in {NextLine(text, pos)} })

\* An Option of an index: Some(index), None, or the panic of the unwrap in
\* node_index_from_name.
SomeIndex(index) == [some |-> TRUE, panic |-> FALSE, index |-> index]
NoIndex == [some |-> FALSE, panic |-> FALSE, index |-> 0]
IndexPanic == [some |-> FALSE, panic |-> TRUE, index |-> 0]

\* The value of a string of decimal digits, saturating above IndexMax: a
\* value above it names no node, as a value that overflows usize names none.
RECURSIVE Value(_)
Value(digits) ==
    IF digits = <<>> THEN 0
    ELSE The({ IF rest > IndexMax THEN rest
               ELSE 10 * rest + (digits[Len(digits)] - 48) :
               rest \in {Value(SubSeq(digits, 1, Len(digits) - 1))} })

\* str::parse::<usize>: an optional '+' and at least one decimal digit.
parse(s) ==
    The({ IF digits = <<>> THEN NoIndex
          ELSE IF \E k \in 1 .. Len(digits) : digits[k] < 48 \/ digits[k] > 57 THEN NoIndex
          ELSE SomeIndex(Value(digits)) :
          digits \in {IF s /= <<>> /\ s[1] = 43 THEN Tail(s) ELSE s} })

\* StaticGraph::node_index_from_name of the adjacency array: a leading 'N'
\* is dropped; nth(1).unwrap() panics on the name "N".
node_index_from_name(g, name) ==
    IF name /= <<>> /\ name[1] = Ascii("N") /\ Len(name) = 1 THEN IndexPanic
    ELSE The({ IF index.some /\ index.index < NodeCount(g) THEN index ELSE NoIndex :
               index \in {parse(IF name /= <<>> /\ name[1] = Ascii("N")
                                THEN Tail(name) ELSE name)} })

\* StaticGraph::edge_index_from_name of the adjacency array: a leading 'E'
\* is dropped, and the index is compared with the node count.
edge_index_from_name(g, name) ==
    IF name /= <<>> /\ name[1] = Ascii("E") /\ Len(name) = 1 THEN IndexPanic
    ELSE The({ IF index.some /\ index.index < NodeCount(g) THEN index ELSE NoIndex :
               index \in {parse(IF name /= <<>> /\ name[1] = Ascii("E")
                                THEN Tail(name) ELSE name)} })

\* StaticGraph::edges_between of the adjacency array.
edges_between(g, u, v) ==
    SelectSeq(IncidentEdges(g, u),
              LAMBDA edge : EdgeEndpoints(g, edge)[1] = v \/ EdgeEndpoints(g, edge)[2] = v)

\* edge_between, which read calls on the graph: the edge between two nodes,
\* if there is one.
edge_between(g, u, v) ==
    IF edges_between(g, u, v) = <<>> THEN NoIndex
    ELSE SomeIndex(edges_between(g, u, v)[1])

\* SPQRDecompositionBuilder::spqr_node_block_index
spqr_node_block_index(b, spqr_node_index) == b.spqr_nodes[spqr_node_index + 1].block

\* What read keeps while it reads: the builder and the HashMaps from the
\* names of a file to the indices the builder returned for them.
NewReader(g) ==
    [builder                 |-> NewBuilder(g),
     name_to_component_index |-> <<>>,
     name_to_block_index     |-> <<>>,
     name_to_spqr_node_index |-> <<>>,
     name_to_spqr_edge_index |-> <<>>]

\* HashMap::insert and HashMap::get
Insert(map, name, index) ==
    [n \in (DOMAIN map) \cup {name} |-> IF n = name THEN index ELSE map[n]]
Lookup(map, name) == IF name \in DOMAIN map THEN SomeIndex(map[name]) ELSE NoIndex

\* What the body of read's loop ends with: the next iteration, or the return
\* of read (an error by `?` or by return, a panic of a call).
Continue(st) == [done |-> FALSE, st |-> st, result |-> LoadErr("")]
Return(result) == [done |-> TRUE, st |-> <<>>, result |-> result]

\* What a name that resolves to no index ends read with (ok_or_else and `?`,
\* or the panic of node_index_from_name).
Unresolved(index, error, name) ==
    IF index.panic THEN Return(LoadPanic(35)) ELSE Return(LoadErrNamed(error, name))

\* map(..).collect::<Result<Vec<_>, _>>(): the indices of the names, or the
\* failure of the first name that resolves to none.
Collect(found, names, error) ==
    IF \A i \in 1 .. Len(found) : found[i].some
    THEN [ok |-> TRUE, value |-> [i \in 1 .. Len(found) |-> found[i].index],
          failure |-> Return(LoadErr(""))]
    ELSE [ok |-> FALSE, value |-> <<>>,
          failure |-> The({ Unresolved(found[i], error, names[i]) :
                            i \in {Min({k \in 1 .. Len(found) : ~found[k].some})} })]

NodesFromNames(g, names) ==
    Collect([i \in 1 .. Len(names) |-> node_index_from_name(g, names[i])],
            names, "UnknownNodeName")

BlocksFromNames(st, names) ==
    Collect([i \in 1 .. Len(names) |-> Lookup(st.name_to_block_index, names[i])],
            names, "UnknownBlockName")

\* A call of the builder that declares nothing by name: read goes on with
\* the builder as the call left it, or panics with it.
Called(st, call_result) ==
    The({ IF ~r.ok THEN Return(LoadPanic(r.at))
          ELSE Continue([st EXCEPT !.builder = r.b]) :
          r \in {call_result} })

\* A call of the builder whose index is inserted under a name of the file.
Declared(st, call_result, map, name) ==
    The({ IF ~r.ok THEN Return(LoadPanic(r.at))
          ELSE Continue([st EXCEPT !.builder = r.b, ![map] = Insert(@, name, r.ret)]) :
          r \in {call_result} })

ReadGLine_NoEmptyCheck(g, st, line) ==
    IF Len(line) < 2 THEN Return(LoadErr("MissingComponentNameInGLine"))
    ELSE The({ IF ~nodes.ok THEN nodes.failure
               ELSE Declared(st, add_component(st.builder, g, nodes.value),
                             "name_to_component_index", line[2]) :
               nodes \in {NodesFromNames(g, Skip(line, 2))} })

\* read, the arm of a G line.
ReadGLine(g, st, line) ==
    IF Len(line) < 2 THEN Return(LoadErr("MissingComponentNameInGLine"))
    ELSE The({ IF ~nodes.ok THEN nodes.failure
               ELSE IF nodes.value = <<>> THEN Return(LoadErr("EmptyComponent"))
               ELSE Declared(st, add_component(st.builder, g, nodes.value),
                             "name_to_component_index", line[2]) :
               nodes \in {NodesFromNames(g, Skip(line, 2))} })

\* read, the arm of an N line.
ReadNLine(g, st, line) ==
    IF Len(line) < 2 THEN Return(LoadErr("MissingNodeNameInNLine"))
    ELSE The({ IF ~node.some THEN Unresolved(node, "UnknownNodeName", line[2])
               ELSE Called(st, add_extra_data_to_node(st.builder, node.index,
                                                      Join(Skip(line, 2)))) :
               node \in {node_index_from_name(g, line[2])} })

\* read, the arm of a B line.
ReadBLine(g, st, line) ==
    IF Len(line) < 2 THEN Return(LoadErr("MissingBlockNameInBLine"))
    ELSE IF Len(line) < 3 THEN Return(LoadErr("MissingComponentNameInBLine"))
    ELSE IF ~Lookup(st.name_to_component_index, line[3]).some
    THEN Return(LoadErrNamed("UnknownComponentName", line[3]))
    ELSE The({ IF ~nodes.ok THEN nodes.failure
               ELSE IF nodes.value = <<>> THEN Return(LoadErr("EmptyBlock"))
               ELSE Declared(st, add_block(st.builder, g,
                                           Lookup(st.name_to_component_index, line[3]).index,
                                           nodes.value),
                             "name_to_block_index", line[2]) :
               nodes \in {NodesFromNames(g, Skip(line, 3))} })

\* read, the arm of a C line.
ReadCLine(g, st, line, debug) ==
    IF Len(line) < 2 THEN Return(LoadErr("MissingNodeNameInCLine"))
    ELSE The({ IF ~node.some THEN Unresolved(node, "UnknownNodeName", line[2])
               ELSE The({ IF ~blocks.ok THEN blocks.failure
                          ELSE IF blocks.value = <<>> THEN Return(LoadErr("EmptyCutNode"))
                          ELSE Called(st, add_cut_node(st.builder, node.index, blocks.value,
                                                       debug)) :
                          blocks \in {BlocksFromNames(st, Skip(line, 2))} }) :
               node \in {node_index_from_name(g, line[2])} })

\* read, the arm of an S, P or R line.
ReadSPRLine(g, st, line, spqr_node_type) ==
    IF Len(line) < 2 THEN Return(LoadErr("MissingSPQRNodeNameInSPRLine"))
    ELSE IF Len(line) < 3 THEN Return(LoadErr("MissingBlockNameInSPRLine"))
    ELSE IF ~Lookup(st.name_to_block_index, line[3]).some
    THEN Return(LoadErrNamed("UnknownBlockName", line[3]))
    ELSE The({ IF ~nodes.ok THEN nodes.failure
               ELSE IF Len(nodes.value) < 2
               THEN Return(LoadErr("LessThanTwoNodesInSPQRNode"))
               ELSE Declared(st, add_spqr_node(st.builder,
                                               Lookup(st.name_to_block_index, line[3]).index,
                                               nodes.value, spqr_node_type),
                             "name_to_spqr_node_index", line[2]) :
               nodes \in {NodesFromNames(g, Skip(line, 3))} })

ReadVLine_NoBlockCheck(g, st, line) ==
    IF Len(line) < 2 THEN Return(LoadErr("MissingSPQREdgeNameInVLine"))
    ELSE IF Len(line) < 4 THEN Return(LoadErr("MissingSPQRNodeNameInVLine"))
    ELSE IF Len(line) < 6 THEN Return(LoadErr("MissingNodeNameInVLine"))
    ELSE LET spqr_node_index_u == Lookup(st.name_to_spqr_node_index, line[3])
             spqr_node_index_v == Lookup(st.name_to_spqr_node_index, line[4])
             node_index_u == node_index_from_name(g, line[5])
             node_index_v == node_index_from_name(g, line[6])
             block_index == spqr_node_block_index(st.builder, spqr_node_index_u.index)
         IN  IF ~spqr_node_index_u.some
             THEN Return(LoadErrNamed("UnknownSPQRNodeName", line[3]))
             ELSE IF ~spqr_node_index_v.some
             THEN Return(LoadErrNamed("UnknownSPQRNodeName", line[4]))
             ELSE IF ~node_index_u.some
             THEN Unresolved(node_index_u, "UnknownNodeName", line[5])
             ELSE IF ~node_index_v.some
             THEN Unresolved(node_index_v, "UnknownNodeName", line[6])
             ELSE Declared(st,
                           add_spqr_edge(st.builder, OptSome(block_index),
                                         <<spqr_node_index_u.index, spqr_node_index_v.index>>,
                                         <<node_index_u.index, node_index_v.index>>),
                           "name_to_spqr_edge_index", line[2])

\* read, the arm of a V line.
ReadVLine(g, st, line) ==
    IF Len(line) < 2 THEN Return(LoadErr("MissingSPQREdgeNameInVLine"))
    ELSE IF Len(line) < 4 THEN Return(LoadErr("MissingSPQRNodeNameInVLine"))
    ELSE IF Len(line) < 6 THEN Return(LoadErr("MissingNodeNameInVLine"))
    ELSE LET spqr_node_index_u == Lookup(st.name_to_spqr_node_index, line[3])
             spqr_node_index_v == Lookup(st.name_to_spqr_node_index, line[4])
             node_index_u == node_index_from_name(g, line[5])
             node_index_v == node_index_from_name(g, line[6])
             block_index == spqr_node_block_index(st.builder, spqr_node_index_u.index)
         IN  IF ~spqr_node_index_u.some
             THEN Return(LoadErrNamed("UnknownSPQRNodeName", line[3]))
             ELSE IF ~spqr_node_index_v.some
             THEN Return(LoadErrNamed("UnknownSPQRNodeName", line[4]))
             ELSE IF ~node_index_u.some
             THEN Unresolved(node_index_u, "UnknownNodeName", line[5])
             ELSE IF ~node_index_v.some
             THEN Unresolved(node_index_v, "UnknownNodeName", line[6])
             ELSE IF block_index /= spqr_node_block_index(st.builder, spqr_node_index_v.index)
             THEN Return(LoadErrNamed("SPQREdgeBetweenDifferentBlocks", line[2]))
             ELSE Declared(st,
                           add_spqr_edge(st.builder, OptSome(block_index),
                                         <<spqr_node_index_u.index, spqr_node_index_v.index>>,
                                         <<node_index_u.index, node_index_v.index>>),
                           "name_to_spqr_edge_index", line[2])

ReadELine_NoBlockLookup(g, st, line) ==
    IF Len(line) < 2 THEN Return(LoadErr("MissingEdgeNameInELine"))
    ELSE IF Len(line) < 3 THEN Return(LoadErr("MissingSPQRNodeNameInELine"))
    ELSE IF Len(line) < 4 THEN Return(LoadErr("MissingBlockNameInELine"))
    ELSE IF Len(line) < 6 THEN Return(LoadErr("MissingNodeNameInELine"))
    ELSE LET node_index_u == node_index_from_name(g, line[5])
             node_index_v == node_index_from_name(g, line[6])
             edge_index == edge_between(g, node_index_u.index, node_index_v.index)
             spqr_node_index == Lookup(st.name_to_spqr_node_index, line[3])
         IN  IF ~node_index_u.some
             THEN Unresolved(node_index_u, "UnknownNodeName", line[5])
             ELSE IF ~node_index_v.some
             THEN Unresolved(node_index_v, "UnknownNodeName", line[6])
             ELSE IF ~edge_index.some
             THEN Return(LoadErrNamed("EdgeDoesNotExist", line[2]))
             ELSE IF ~spqr_node_index.some
             THEN Return(LoadErrNamed("UnknownSPQRNodeName", line[3]))
             ELSE Called(st, add_edge_to_spqr_node(st.builder, g, edge_index.index,
                                                   spqr_node_index.index))

ReadELine_AnyEdge(g, st, line) ==
    IF Len(line) < 2 THEN Return(LoadErr("MissingEdgeNameInELine"))
    ELSE IF Len(line) < 3 THEN Return(LoadErr("MissingSPQRNodeNameInELine"))
    ELSE IF Len(line) < 4 THEN Return(LoadErr("MissingBlockNameInELine"))
    ELSE IF Len(line) < 6 THEN Return(LoadErr("MissingNodeNameInELine"))
    ELSE LET node_index_u == node_index_from_name(g, line[5])
             node_index_v == node_index_from_name(g, line[6])
             edge_index == edge_between(g, node_index_u.index, node_index_v.index)
             spqr_node_index == Lookup(st.name_to_spqr_node_index, line[3])
         IN  IF ~node_index_u.some
             THEN Unresolved(node_index_u, "UnknownNodeName", line[5])
             ELSE IF ~node_index_v.some
             THEN Unresolved(node_index_v, "UnknownNodeName", line[6])
             ELSE IF ~spqr_node_index.some
             THEN Return(LoadErrNamed("UnknownSPQRNodeName", line[3]))
             ELSE IF ~Lookup(st.name_to_block_index, line[4]).some
             THEN Return(LoadErrNamed("UnknownBlockName", line[4]))
             ELSE Called(st, add_edge_to_spqr_node(st.builder, g, edge_index.index,
                                                   spqr_node_index.index))

ReadELine_OwnBlock(g, st, line) ==
    IF Len(line) < 2 THEN Return(LoadErr("MissingEdgeNameInELine"))
    ELSE IF Len(line) < 3 THEN Return(LoadErr("MissingSPQRNodeNameInELine"))
    ELSE IF Len(line) < 4 THEN Return(LoadErr("MissingBlockNameInELine"))
    ELSE IF Len(line) < 6 THEN Return(LoadErr("MissingNodeNameInELine"))
    ELSE LET node_index_u == node_index_from_name(g, line[5])
             node_index_v == node_index_from_name(g, line[6])
             edge_index == edge_between(g, node_index_u.index, node_index_v.index)
             spqr_node_index == Lookup(st.name_to_spqr_node_index, line[3])
             block_index == Lookup(st.name_to_block_index, line[4])
         IN  IF ~node_index_u.some
             THEN Unresolved(node_index_u, "UnknownNodeName", line[5])
             ELSE IF ~node_index_v.some
             THEN Unresolved(node_index_v, "UnknownNodeName", line[6])
             ELSE IF ~edge_index.some
             THEN Return(LoadErrNamed("EdgeDoesNotExist", line[2]))
             ELSE IF ~spqr_node_index.some
             THEN Return(LoadErrNamed("UnknownSPQRNodeName", line[3]))
             ELSE IF ~block_index.some
             THEN Return(LoadErrNamed("UnknownBlockName", line[4]))
             ELSE IF block_index.index
                         /= spqr_node_block_index(st.builder, spqr_node_index.index)
             THEN Return(LoadErrNamed("UnknownBlockName", line[4]))
             ELSE Called(st, add_edge_to_spqr_node(st.builder, g, edge_index.index,
                                                   spqr_node_index.index))

\* read, the arm of an E line.
ReadELine(g, st, line) ==
    IF Len(line) < 2 THEN Return(LoadErr("MissingEdgeNameInELine"))
    ELSE IF Len(line) < 3 THEN Return(LoadErr("MissingSPQRNodeNameInELine"))
    ELSE IF Len(line) < 4 THEN Return(LoadErr("MissingBlockNameInELine"))
    ELSE IF Len(line) < 6 THEN Return(LoadErr("MissingNodeNameInELine"))
    ELSE LET node_index_u == node_index_from_name(g, line[5])
             node_index_v == node_index_from_name(g, line[6])
             edge_index == edge_between(g, node_index_u.index, node_index_v.index)
             spqr_node_index == Lookup(st.name_to_spqr_node_index, line[3])
         IN  IF ~node_index_u.some
             THEN Unresolved(node_index_u, "UnknownNodeName", line[5])
             ELSE IF ~node_index_v.some
             THEN Unresolved(node_index_v, "UnknownNodeName", line[6])
             ELSE IF ~edge_index.some
             THEN Return(LoadErrNamed("EdgeDoesNotExist", line[2]))
             ELSE IF ~spqr_node_index.some
             THEN Return(LoadErrNamed("UnknownSPQRNodeName", line[3]))
             ELSE IF ~Lookup(st.name_to_block_index, line[4]).some
             THEN Return(LoadErrNamed("UnknownBlockName", line[4]))
             ELSE Called(st, add_edge_to_spqr_node(st.builder, g, edge_index.index,
                                                   spqr_node_index.index))

\* read, the match on the type of a line.
ReadLine(g, st, line, debug) ==
    CASE line[1] = Str(<<"G">>) -> ReadGLine(g, st, line)
      [] line[1] = Str(<<"N">>) -> ReadNLine(g, st, line)
      [] line[1] = Str(<<"B">>) -> ReadBLine(g, st, line)
      [] line[1] = Str(<<"C">>) -> ReadCLine(g, st, line, debug)
      [] line[1] = Str(<<"S">>) -> ReadSPRLine(g, st, line, "SNode")
      [] line[1] = Str(<<"P">>) -> ReadSPRLine(g, st, line, "PNode")
      [] line[1] = Str(<<"R">>) -> ReadSPRLine(g, st, line, "RNode")
      [] line[1] = Str(<<"V">>) -> ReadVLine(g, st, line)
      [] line[1] = Str(<<"E">>) -> ReadELine(g, st, line)
      [] OTHER -> Return(LoadErrNamed("InvalidLineType", line[1]))

\* read, one turn of its loop with the reader at position pos of the text:
\* how the turn ends, the tokens of the line it took and the position it
\* leaves the reader at.  When no line is left, build ends read.
ReadStep(g, text, pos, st, debug) ==
    The({ IF next.error /= "" THEN [end |-> Return(LoadErr(next.error)), line |-> <<>>, pos |-> pos]
          ELSE IF ~next.some
          THEN [end  |-> The({ IF built.ok THEN Return(Loaded(built.d))
                               ELSE Return(LoadPanic(built.at)) :
                               built \in {build(st.builder, g, debug)} }),
                line |-> <<>>,
                pos  |-> pos]
          ELSE [end |-> ReadLine(g, st, next.line, debug), line |-> next.line,
                pos |-> next.pos] :
          next \in {read_next_line(text, pos)} })

\* read, its loop from position pos of the text, and the build that ends it.
RECURSIVE ReadLines(_, _, _, _, _)
ReadLines(g, text, pos, st, debug) ==
    The({ IF step.end.done THEN step.end.result
          ELSE ReadLines(g, text, step.pos, step.end.st, debug) :
          step \in {ReadStep(g, text, pos, st, debug)} })

HeaderError_UrlFirst(header) ==
    IF header.error /= "" THEN header.error
    ELSE IF ~header.some THEN "MissingHeader"
    ELSE IF header.line[1] /= Str(<<"H">>) THEN "MissingHeader"
    ELSE IF Len(header.line) < 3 THEN "MissingHeaderUrl"
    ELSE IF header.line[2] /= Str(<<"v", "0", ".", "1">>) THEN "UnsupportedVersion"
    ELSE ""

\* read, the checks of the header line (plain_spqr_file.rs 26-35): the error
\* read returns for it, "" if it passes.
HeaderError(header) ==
    IF header.error /= "" THEN header.error
    ELSE IF ~header.some THEN "MissingHeader"
    ELSE IF header.line[1] /= Str(<<"H">>) THEN "MissingHeader"
    ELSE IF Len(header.line) < 2 \/ header.line[2] /= Str(<<"v", "0", ".", "1">>)
    THEN "UnsupportedVersion"
    ELSE IF Len(header.line) < 3 THEN "MissingHeaderUrl"
    ELSE ""

\* plain_spqr_file::read
read(g, text, debug) ==
    The({ IF HeaderError(header) /= "" THEN LoadErr(HeaderError(header))
          ELSE ReadLines(g, text, header.pos, NewReader(g), debug) :
          header \in {read_next_line(text, 1)} })

\* ------------------------------------------------- the text round trip test

\* str::trim
Trim(s) ==
    The({ IF kept = {} THEN <<>> ELSE SubSeq(s, Min(kept), Max(kept)) :
          kept \in {{i \in 1 .. Len(s) : s[i] \notin Whitespace}} })

\* A match of E\d+ between two spaces.
IsEdgeLabel(piece) ==
    /\ Len(piece) >= 2
    /\ piece[1] = Ascii("E")
    /\ \A k \in 2 .. Len(piece) : piece[k] >= 48 /\ piece[k] <= 57

\* Regex::replace_all of " E\d+ " by " E " on the pieces of a line between
\* its spaces, from piece i on: a match takes the space after it, so the
\* piece after a match is none.
RECURSIVE RemoveEdgeLabels(_, _, _)
RemoveEdgeLabels(pieces, i, after_match) ==
    IF i > Len(pieces) THEN <<>>
    ELSE IF i > 1 /\ i < Len(pieces) /\ ~after_match /\ IsEdgeLabel(pieces[i])
    THEN <<Str(<<"E">>)>> \o RemoveEdgeLabels(pieces, i + 1, TRUE)
    ELSE <<pieces[i]>> \o RemoveEdgeLabels(pieces, i + 1, FALSE)

\* str::lines, each line with its edge labels removed and trimmed.
RECURSIVE TrimmedLines(_, _)
TrimmedLines(text, pos) ==
    IF pos > Len(text) THEN <<>>
    ELSE The({ <<Trim(Join(RemoveEdgeLabels(Split(SubSeq(text, l.from, l.to)), 1, FALSE)))>>
                   \o TrimmedLines(text, l.next) :
               l \in {NextLine(text, pos)} })

\* What test_tiny1 compares of a text: its lines, sorted.  Two sorted
\* vectors are equal when every line occurs equally often in both.
SortedLines(text) ==
    The({ [line \in {lines[i] : i \in 1 .. Len(lines)} |->
              Cardinality({i \in 1 .. Len(lines) : lines[i] = line})] :
          lines \in {TrimmedLines(Trim(text), 1)} })

\* ----------------------------------------------------------- state machine

\* No call has panicked.
NoCall == [op |-> "none", at |-> 0]

\* No file has been read.
NotLoaded == LoadErr("")

\* No file is being read.
NoReader == [st |-> <<>>, pos |-> 0, line |-> <<>>, records |-> 0]

\* The inputs a caller draws from.
NodeLists(g, len) == SeqsUpTo(NodeIndices(g), len)
AscendingLists(g, len) ==
    {s \in NodeLists(g, len) : \A i \in 1 .. (Len(s) - 1) : s[i] < s[i + 1]}
BlockLists(b, len) == SeqsUpTo(0 .. (Len(b.blocks) - 1), len)
SPQRNodeTypes == {"SNode", "PNode", "RNode"}
Texts == {<<>>, Str(<<"h", "i">>), Str(<<"a", "#">>)}

\* A caller's workload: the graph, whether debug assertions are compiled in,
\* the node lists and the longest block list it passes, the SPQR node types
\* it declares, how many entities of each kind it declares at most
\* (components, blocks, explicit cut nodes, SPQR nodes, SPQR edges, annotated
\* nodes), and whether it takes the decomposition through the codecs.  It
\* hands the edges to the SPQR nodes in any order.
Workload(g, debug, lists, len, types, counts, round_trips) ==
    [graph |-> g, debug |-> debug, lists |-> lists, len |-> len, types |-> types,
     round_trips |-> round_trips, edges |-> "any",
     components |-> counts[1], blocks |-> counts[2], cut_nodes |-> counts[3],
     spqr_nodes |-> counts[4], spqr_edges |-> counts[5], extra |-> counts[6]]

\* The workload of a caller that hands the edges over in the order of their
\* indices, as a writer that loops over edge_indices() does.
Ascending(w) == [w EXCEPT !.edges = "ascending"]

\* The edges the caller may hand to an SPQR node next.
CallerEdges(w, b, g) ==
    IF w.edges = "ascending"
    THEN {e \in EdgeIndices(g) :
             /\ IsNone(b.edge_data[e].spqr_node_index)
             /\ \A f \in 0 .. (e - 1) : IsSome(b.edge_data[f].spqr_node_index)}
    ELSE EdgeIndices(g)

Workloads ==
    { \* block-cut tree of one edge, with and without debug assertions
      Workload(SingleEdge, TRUE, NodeLists(SingleEdge, MaxLen - 1), MaxLen - 1, SPQRNodeTypes, <<1, MaxCalls, 1, 1, 0, 0>>, TRUE),
      Workload(SingleEdge, FALSE, NodeLists(SingleEdge, MaxLen - 1), MaxLen - 1, SPQRNodeTypes, <<1, MaxCalls, 1, 1, 0, 0>>, FALSE),
      \* SPQR tree of one block
      Workload(SingleEdge, TRUE, NodeLists(SingleEdge, MaxLen - 1), MaxLen - 1, SPQRNodeTypes,
               <<1, 1, 0, MaxCalls, 1, 0>>, FALSE),
      \* SPQR tree of one block, taken through the codecs
      Workload(SingleEdge, TRUE, {<<0, 1>>}, MaxLen - 1, {"PNode", "RNode"},
               <<1, 1, 0, MaxCalls, 1, 0>>, TRUE),
      \* annotations
      Workload(SingleEdge, TRUE, NodeLists(SingleEdge, MaxLen - 1), MaxLen - 1, SPQRNodeTypes, <<1, 1, 0, 1, 0, MaxCalls>>, TRUE),
      \* lists of three nodes, over a graph with an isolated node
      Workload(EdgeAndNode, TRUE, NodeLists(EdgeAndNode, MaxLen), MaxLen, SPQRNodeTypes,
               <<1, 1, 0, 1, 0, 0>>, FALSE),
      Workload(EdgeAndNode, FALSE, NodeLists(EdgeAndNode, MaxLen), MaxLen, SPQRNodeTypes,
               <<1, 1, 0, 1, 0, 0>>, FALSE),
      \* a component of one node, with and without debug assertions
      Workload(EdgeAndNode, TRUE, {<<0, 1>>, <<2>>}, 1, {"PNode"},
               <<MaxCalls, MaxCalls, 0, 1, 0, 0>>, FALSE),
      Workload(EdgeAndNode, FALSE, {<<0, 1>>, <<2>>}, 1, {"PNode"},
               <<MaxCalls, MaxCalls, 0, 1, 0, 0>>, FALSE),
      \* SPQR tree of a block of three nodes
      Workload(Path3, TRUE, AscendingLists(Path3, MaxLen), MaxLen, SPQRNodeTypes,
               <<1, 1, 0, MaxCalls, 1, 0>>, FALSE),
      \* block-cut tree of a path: two blocks sharing the middle node
      Workload(Path3, TRUE, {<<0, 1, 2>>, <<0, 1>>, <<1, 2>>, <<1>>, <<>>}, MaxLen - 1,
               {"SNode", "PNode"}, <<1, MaxCalls, 1, MaxCalls, 0, 0>>, TRUE),
      \* two components
      Workload(TwoEdges, TRUE, NodeLists(TwoEdges, MaxLen - 1), MaxLen - 1, {"SNode"}, <<MaxCalls, MaxCalls, 0, MaxCalls, 0, 0>>, TRUE),
      \* one S node over a cycle, with and without debug assertions
      Workload(Cycle4, TRUE, {<<0, 1, 2, 3>>}, 1, {"SNode"}, <<1, 1, 0, 1, 0, 0>>, TRUE),
      Workload(Cycle4, FALSE, {<<0, 1, 2, 3>>}, 1, {"SNode"}, <<1, 1, 0, 1, 0, 0>>, TRUE),
      \* two triangles sharing a node, no cut node declared
      Ascending(Workload(TwoTriangles, TRUE, {<<0, 1, 2, 3, 4>>, <<0, 1, 2>>, <<2, 3, 4>>},
                         1, {"SNode"}, <<1, 2, 0, 2, 0, 0>>, TRUE)),
      \* SPQR edges in a component of two blocks
      Ascending(Workload(Path3, TRUE, {<<0, 1, 2>>, <<0, 1>>, <<1, 2>>}, 1, {"PNode"},
                         <<1, 2, 0, 2, 1, 0>>, FALSE)),
      \* two blocks that share two nodes, with at most one cut node declared
      Ascending(Workload(EdgeAndNode, TRUE, {<<0, 1, 2>>, <<0, 2>>}, MaxLen - 1, {"SNode"},
                         <<1, 2, 1, 1, 0, 0>>, TRUE)) }

Init ==
    /\ \E w \in Workloads :
           /\ graph = w.graph
           /\ debug_assertions = w.debug
           /\ budget = [k \in DOMAIN w \ {"graph", "debug"} |-> w[k]]
           /\ builder = NewBuilder(w.graph)
    /\ decomposition = <<>>
    /\ phase = "building"
    /\ call = NoCall
    /\ file = <<>>
    /\ loaded = NotLoaded
    /\ rewritten = <<>>
    /\ reader = NoReader

\* The builder after a call: as the call left it, with the caller stopped
\* by the panic if there was one.
Finish(r, op) ==
    /\ builder' = r.b
    /\ phase' = IF r.ok THEN "building" ELSE "panicked"
    /\ call' = IF r.ok THEN NoCall ELSE [op |-> op, at |-> r.at]
    /\ UNCHANGED <<graph, debug_assertions, decomposition, budget, file, loaded, rewritten,
                   reader>>

AddComponent ==
    /\ phase = "building"
    /\ Len(builder.components) < budget.components
    /\ \E nodes \in budget.lists :
           Finish(add_component(builder, graph, nodes), "add_component")

AddExtraDataToNode ==
    /\ phase = "building"
    /\ Cardinality({n \in NodeIndices(graph) : builder.node_data[n].extra_data /= <<>>})
           < budget.extra
    /\ \E node \in NodeIndices(graph), text \in Texts :
           Finish(add_extra_data_to_node(builder, node, text), "add_extra_data_to_node")

AddBlock ==
    /\ phase = "building"
    /\ Len(builder.blocks) < budget.blocks
    /\ \E component \in 0 .. (Len(builder.components) - 1), nodes \in budget.lists :
           Finish(add_block(builder, graph, component, nodes), "add_block")

AddCutNode ==
    /\ phase = "building"
    /\ Len(builder.cut_nodes) < budget.cut_nodes
    /\ \E node \in NodeIndices(graph), block_list \in BlockLists(builder, budget.len) :
           Finish(add_cut_node(builder, node, block_list, debug_assertions), "add_cut_node")

AddSPQRNode ==
    /\ phase = "building"
    /\ Len(builder.spqr_nodes) < budget.spqr_nodes
    /\ \E block \in 0 .. (Len(builder.blocks) - 1), nodes \in budget.lists,
          type \in budget.types :
           Finish(add_spqr_node(builder, block, nodes, type), "add_spqr_node")

AddEdgeToSPQRNode ==
    /\ phase = "building"
    /\ \E edge \in CallerEdges(budget, builder, graph),
          spqr_node \in 0 .. (Len(builder.spqr_nodes) - 1) :
           Finish(add_edge_to_spqr_node(builder, graph, edge, spqr_node), "add_edge_to_spqr_node")

AddSPQREdge ==
    /\ phase = "building"
    /\ Len(builder.spqr_edges) < budget.spqr_edges
    /\ \E block \in (0 .. (Len(builder.blocks) - 1)) \cup {OptNone},
          u \in 0 .. (Len(builder.spqr_nodes) - 1),
          v \in 0 .. (Len(builder.spqr_nodes) - 1),
          a \in NodeIndices(graph), c \in NodeIndices(graph) :
           Finish(add_spqr_edge(builder, block, <<u, v>>, <<a, c>>), "add_spqr_edge")

Build ==
    /\ phase = "building"
    /\ LET r == build(builder, graph, debug_assertions) IN
           /\ phase' = IF r.ok THEN "built" ELSE "panicked"
           /\ call' = IF r.ok THEN NoCall ELSE [op |-> "build", at |-> r.at]
           /\ decomposition' = r.d
           /\ builder' = IF r.ok THEN builder ELSE r.b
    /\ UNCHANGED <<graph, debug_assertions, budget, file, loaded, rewritten, reader>>

\* The round trip of io/binary/tests.rs: the decomposition is written to a
\* buffer, and the buffer read back.
WriteBinary ==
    /\ phase = "built"
    /\ budget.round_trips
    /\ file' = SPQRDecomposition_write_binary(decomposition)
    /\ phase' = "binary_written"
    /\ UNCHANGED <<graph, debug_assertions, builder, decomposition, call, budget, loaded,
                   rewritten, reader>>

ReadBinary ==
    /\ phase = "binary_written"
    /\ loaded' = SPQRDecomposition_read_binary(file)
    /\ phase' = "binary_read"
    /\ UNCHANGED <<graph, debug_assertions, builder, decomposition, call, budget, file,
                   rewritten, reader>>

\* The round trip of io/plain_spqr_file/tests.rs, from a decomposition: it
\* is written as text, the text is read back, and what was read is written
\* again.
WriteText ==
    /\ phase = "built"
    /\ budget.round_trips
    /\ file' = write(decomposition, graph)
    /\ phase' = "text_written"
    /\ UNCHANGED <<graph, debug_assertions, builder, decomposition, call, budget, loaded,
                   rewritten, reader>>

ReadText ==
    /\ phase = "text_written"
    /\ loaded' = read(graph, file, debug_assertions)
    /\ phase' = "text_read"
    /\ UNCHANGED <<graph, debug_assertions, builder, decomposition, call, budget, file,
                   rewritten, reader>>

RewriteText ==
    /\ phase = "text_read"
    /\ loaded.ok
    /\ rewritten' = write(loaded.d, graph)
    /\ phase' = "text_rewritten"
    /\ UNCHANGED <<graph, debug_assertions, builder, decomposition, call, budget, file,
                   loaded, reader>>

Next ==
    \/ AddComponent
    \/ AddExtraDataToNode
    \/ AddBlock
    \/ AddCutNode
    \/ AddSPQRNode
    \/ AddEdgeToSPQRNode
    \/ AddSPQREdge
    \/ Build
    \/ WriteBinary
    \/ ReadBinary
    \/ WriteText
    \/ ReadText
    \/ RewriteText

Spec == Init /\ [][Next]_vars

\* --------------------------------------------- reading a text line by line

\* A record of a file: the letter of its type, its names, and its nodes.
Record(type, names, nodes) == Join(<<Str(<<type>>)>> \o names) \o WriteNodes(nodes)

\* The text of a file, from its lines.
FileOf(lines) == Flatten([i \in 1 .. Len(lines) |-> Line(lines[i])])

\* The records of a file for Path3 that read accepts: one component, the
\* block of edge 0-1 with a P and an S node joined by an SPQR edge, then the
\* block of edge 1-2 with a P node.  Every name is declared before its use.
Records ==
    << Record("G", <<Named("G", 0)>>, <<0, 1, 2>>),
       Record("B", <<Named("B", 0), Named("G", 0)>>, <<0, 1>>),
       Record("P", <<Named("P", 0), Named("B", 0)>>, <<0, 1>>),
       Record("S", <<Named("S", 1), Named("B", 0)>>, <<0, 1>>),
       Record("V", <<Named("V", 0), Named("P", 0), Named("S", 1)>>, <<0, 1>>),
       Record("E", <<Named("E", 0), Named("P", 0), Named("B", 0)>>, <<0, 1>>),
       Record("B", <<Named("B", 1), Named("G", 0)>>, <<1, 2>>),
       Record("P", <<Named("P", 2), Named("B", 1)>>, <<1, 2>>),
       Record("E", <<Named("E", 1), Named("P", 2), Named("B", 1)>>, <<1, 2>>) >>

\* Lines a file may hold besides: blank lines and comments, records that
\* declare nothing, records that name what the file declares later or
\* never, records with a node that is not of their block or SPQR nodes, a
\* cut node, an annotation, a line of no known type, and a comment that is
\* not UTF-8.
OtherLines ==
    { <<>>,
      Str(<<" ", " ">>),
      Str(<<"#", " ", "c">>),
      Str(<<" ", "#", "G">>),
      Str(<<"#">>) \o <<255>>,
      Str(<<"G">>),
      Record("G", <<Named("G", 1)>>, <<>>),
      Record("G", <<Named("G", 1)>>, <<7>>),
      Record("B", <<Named("B", 2)>>, <<>>),
      Record("B", <<Named("B", 2), Named("G", 0)>>, <<>>),
      Record("B", <<Named("B", 2), Named("G", 1)>>, <<2>>),
      Record("C", <<node_name(1)>>, <<>>),
      Record("C", <<node_name(1), Named("B", 0), Named("B", 1)>>, <<>>),
      Record("S", <<Named("S", 3), Named("B", 0)>>, <<>>),
      Record("R", <<Named("R", 3), Named("B", 0)>>, <<0>>),
      Record("P", <<Named("P", 3), Named("B", 1)>>, <<1, 2>>),
      Record("V", <<Named("V", 1), Named("P", 0), Named("P", 2)>>, <<1, 1>>),
      Record("V", <<Named("V", 1), Named("S", 1), Named("P", 0)>>, <<0, 1>>),
      Record("V", <<Named("V", 1), Named("P", 0), Named("S", 1)>>, <<0, 2>>),
      Record("S", <<Named("S", 3), Named("B", 1)>>, <<0, 1>>),
      Record("E", <<Named("E", 2), Named("P", 0), Named("B", 0)>>, <<0, 2>>),
      Record("E", <<Named("E", 0), Named("P", 0), Named("B", 1)>>, <<0, 1>>),
      Record("E", <<Named("E", 1), Named("P", 2), Named("B", 0)>>, <<1, 2>>),
      Record("N", <<node_name(0), Str(<<"h", "i">>)>>, <<>>),
      Record("X", <<Named("X", 0)>>, <<>>) }

\* First lines a file may have instead of its header.
HeaderLines ==
    { <<>>,
      Str(<<"#", " ", "H">>),
      Str(<<"H">>),
      Str(<<"h", " ", "v", "0", ".", "1", " ", "u">>),
      Str(<<"H", " ", "v", "0", ".", "2", " ", "u">>),
      Str(<<"H", " ", " ", "v", "0", ".", "1", " ", "u">>),
      Str(<<"H", " ", "v", "0", ".", "1">>),
      Str(<<"H", " ", "v", "0", ".", "1", " ", "#", "u">>),
      Str(<<" ", "H", " ", "v", "0", ".", "1", " ", "u", " ", "#", "c">>) }

\* The records with the block of the last E record replaced by the other
\* block of the file.
OtherBlockRecords ==
    SubSeq(Records, 1, Len(Records) - 1)
        \o <<Record("E", <<Named("E", 1), Named("P", 2), Named("B", 0)>>, <<1, 2>>)>>

\* The records with a text after the node names of the last E record.
AnnotatedEdgeRecords ==
    SubSeq(Records, 1, Len(Records) - 1)
        \o <<Records[Len(Records)] \o Str(<<" ", "h", "i">>)>>

\* The texts handed to read: the records under each first line, no line at
\* all, blank lines and comments only, the header followed by the records
\* with one more line put in at any place, and the header followed by the
\* records with the other block in the last, or with a text at its end.
ReaderTexts ==
    {FileOf(<<Header>> \o OtherBlockRecords), FileOf(<<Header>> \o AnnotatedEdgeRecords)} \cup
    {FileOf(<<first>> \o Records) : first \in HeaderLines}
        \cup {<<>>, FileOf(<< <<>>, Str(<<"#", " ", "c">>) >>)}
        \cup {FileOf(<<Header>> \o SubSeq(Records, 1, k) \o <<line>>
                         \o SubSeq(Records, k + 1, Len(Records))) :
                  k \in 0 .. Len(Records),
                  line \in OtherLines \cup {Records[i] : i \in 1 .. Len(Records)}}

\* The records of a file for ParallelEdges that puts each of the two edges
\* in the SPQR node given for it: one component, one block, a P node and an
\* S node.  Every name is declared before its use.
ParallelRecords(first, second) ==
    << Record("G", <<Named("G", 0)>>, <<0, 1>>),
       Record("B", <<Named("B", 0), Named("G", 0)>>, <<0, 1>>),
       Record("P", <<Named("P", 0), Named("B", 0)>>, <<0, 1>>),
       Record("S", <<Named("S", 1), Named("B", 0)>>, <<0, 1>>),
       Record("E", <<Named("E", 0), first, Named("B", 0)>>, <<0, 1>>),
       Record("E", <<Named("E", 1), second, Named("B", 0)>>, <<0, 1>>) >>

\* The texts handed to read for ParallelEdges: the two edges in one SPQR
\* node, and in two.
ParallelTexts ==
    {FileOf(<<Header>> \o ParallelRecords(Named("P", 0), second)) :
         second \in {Named("P", 0), Named("S", 1)}}

\* read is called on a text; it has taken no line yet.
ReadInit ==
    /\ \/ graph = Path3 /\ file \in ReaderTexts
       \/ graph = ParallelEdges /\ file \in ParallelTexts
    /\ debug_assertions \in BOOLEAN
    /\ phase = "header"
    /\ reader = NoReader
    /\ loaded = NotLoaded
    /\ builder = NewBuilder(graph)
    /\ decomposition = <<>>
    /\ call = NoCall
    /\ budget = <<>>
    /\ rewritten = <<>>

\* read returns: the caller has the result, the locals are gone.  The
\* reader keeps the line it returned on and what it held before that line.
ReadReturns(result, line, pos) ==
    /\ loaded' = result
    /\ phase' = "read"
    /\ reader' = [reader EXCEPT !.line = line, !.pos = pos]

\* read, up to the construction of the builder (plain_spqr_file.rs 23-41).
ReadHeader ==
    /\ phase = "header"
    /\ LET header == read_next_line(file, 1) IN
           IF HeaderError(header) /= ""
           THEN ReadReturns(LoadErr(HeaderError(header)), header.line, 1)
           ELSE /\ reader' = [st |-> NewReader(graph), pos |-> header.pos,
                              line |-> header.line, records |-> 0]
                /\ phase' = "records"
                /\ loaded' = loaded
    /\ UNCHANGED <<graph, debug_assertions, builder, decomposition, call, budget, file,
                   rewritten>>

\* A line is left for read_next_line to return (or to fail on).
LineLeft == read_next_line(file, reader.pos) /= NoLine

\* read, one turn of its loop on a record (plain_spqr_file.rs 43-208).
ReadRecord ==
    /\ phase = "records"
    /\ LineLeft
    /\ LET step == ReadStep(graph, file, reader.pos, reader.st, debug_assertions) IN
           IF step.end.done
           THEN ReadReturns(step.end.result, step.line, step.pos)
           ELSE /\ reader' = [st |-> step.end.st, pos |-> step.pos, line |-> step.line,
                              records |-> reader.records + 1]
                /\ UNCHANGED <<loaded, phase>>
    /\ UNCHANGED <<graph, debug_assertions, builder, decomposition, call, budget, file,
                   rewritten>>

\* read, the end of its loop and the build (plain_spqr_file.rs 43, 210).
ReadEnd ==
    /\ phase = "records"
    /\ ~LineLeft
    /\ LET step == ReadStep(graph, file, reader.pos, reader.st, debug_assertions) IN
           ReadReturns(step.end.result, step.line, step.pos)
    /\ UNCHANGED <<graph, debug_assertions, builder, decomposition, call, budget, file,
                   rewritten>>

ReadNext ==
    \/ ReadHeader
    \/ ReadRecord
    \/ ReadEnd

ReadSpec == ReadInit /\ [][ReadNext]_vars

\* ------------------------------------------------- read_binary on any bytes

\* The decompositions whose binary form is handed to read_binary: as in
\* io/binary/tests.rs, a decomposition read from a text, here that of the
\* path 0-1-2, without and with an annotation of node 0.
BinarySamples ==
    { read(Path3, FileOf(<<Header>> \o Records \o extra), TRUE).d :
          extra \in { <<>>, <<Record("N", <<node_name(0), Str(<<"h", "i">>)>>, <<>>)>> } }

\* The bytes a damaged file may have in place of one of its own: a zero, a
\* byte that is no SPQR node type, a byte that no UTF-8 text contains.
DamageBytes == {0, 3, 255}

\* A decomposition was written with write_binary.
BinaryInit ==
    /\ graph = Path3
    /\ debug_assertions = TRUE
    /\ decomposition \in BinarySamples
    /\ file = SPQRDecomposition_write_binary(decomposition)
    /\ phase = "binary_written"
    /\ builder = NewBuilder(graph)
    /\ call = NoCall
    /\ budget = <<>>
    /\ loaded = NotLoaded
    /\ rewritten = <<>>
    /\ reader = NoReader

\* The file loses its end.
Truncate ==
    /\ phase = "binary_written"
    /\ \E len \in 0 .. (Len(file) - 1) : file' = SubSeq(file, 1, len)
    /\ phase' = "binary_damaged"
    /\ UNCHANGED <<graph, debug_assertions, builder, decomposition, call, budget, loaded,
                   rewritten, reader>>

\* One byte of the file is replaced by another.
Overwrite ==
    /\ phase = "binary_written"
    /\ \E pos \in 1 .. Len(file), byte \in DamageBytes :
           /\ file[pos] /= byte
           /\ file' = [file EXCEPT ![pos] = byte]
    /\ phase' = "binary_damaged"
    /\ UNCHANGED <<graph, debug_assertions, builder, decomposition, call, budget, loaded,
                   rewritten, reader>>

\* read_binary is called on the damaged file.
ReadDamaged ==
    /\ phase = "binary_damaged"
    /\ loaded' = SPQRDecomposition_read_binary(file)
    /\ phase' = "binary_read"
    /\ UNCHANGED <<graph, debug_assertions, builder, decomposition, call, budget, file,
                   rewritten, reader>>

BinaryNext ==
    \/ Truncate
    \/ Overwrite
    \/ ReadDamaged
    \/ ReadBinary

BinarySpec == BinaryInit /\ [][BinaryNext]_vars

\* ================================================================== claims

\* The builder has returned from every call so far.
Building == phase = "building"
Built == phase = "built"

\* The entities a claim about "the builder state or the built decomposition"
\* speaks of: the decomposition once built, the builder before.
Current == IF Built THEN decomposition ELSE builder

ComponentIndices(d) == 0 .. (Len(d.components) - 1)
BlockIndices(d) == 0 .. (Len(d.blocks) - 1)
CutNodeIndices(d) == 0 .. (Len(d.cut_nodes) - 1)
SPQRNodeIndices(d) == 0 .. (Len(d.spqr_nodes) - 1)
SPQREdgeIndices(d) == 0 .. (Len(d.spqr_edges) - 1)

\* The entities of each kind that list a node or an edge.
ComponentsOfNode(d, n) == {c \in ComponentIndices(d) : Contains(d.components[c + 1].nodes, n)}
BlocksOfNode(d, n) == {k \in BlockIndices(d) : Contains(d.blocks[k + 1].nodes, n)}
SPQRNodesOfNode(d, n) == {k \in SPQRNodeIndices(d) : Contains(d.spqr_nodes[k + 1].nodes, n)}
SPQRNodesOfEdge(d, e) == {k \in SPQRNodeIndices(d) : Contains(d.spqr_nodes[k + 1].edges, e)}

\* ---- C1

C1_NodePlaced(d, n) ==
    /\ d.node_data[n].component_index \in ComponentIndices(d)
    /\ ComponentsOfNode(d, n) = {d.node_data[n].component_index}
    /\ d.node_data[n].block_indices /= <<>>
    /\ BlocksOfNode(d, n) /= {}
    /\ d.node_data[n].spqr_node_indices /= <<>>
    /\ SPQRNodesOfNode(d, n) /= {}

C1_EdgePlaced(d, e) ==
    /\ d.edge_data[e].component_index \in ComponentIndices(d)
    /\ d.edge_data[e].block_index \in BlockIndices(d)
    /\ d.edge_data[e].spqr_node_index \in SPQRNodeIndices(d)
    /\ SPQRNodesOfEdge(d, e) = {d.edge_data[e].spqr_node_index}

\* Something build's sanity checks are there to catch is missing.
C1_Missing(b, g) ==
    \/ \E n \in NodeIndices(g) :
           \/ IsNone(b.node_data[n].component_index)
           \/ Len(b.node_data[n].block_indices) = 0
           \/ Len(b.node_data[n].spqr_node_indices) = 0
    \/ \E e \in EdgeIndices(g) :
           \/ IsNone(b.edge_data[e].component_index)
           \/ IsNone(b.edge_data[e].block_index)
           \/ IsNone(b.edge_data[e].spqr_node_index)

\* C1: with debug assertions on, a decomposition build() returns gives every
\* node exactly one component, at least one block and at least one SPQR
\* node, and every edge exactly one component, block and SPQR node; and
\* build() panics rather than return when one of these is missing.
C1_Partition ==
    /\ (Built /\ debug_assertions) =>
           /\ \A n \in NodeIndices(graph) : C1_NodePlaced(decomposition, n)
           /\ \A e \in EdgeIndices(graph) : C1_EdgePlaced(decomposition, e)
    /\ (Building /\ debug_assertions /\ C1_Missing(builder, graph)) =>
           ~build(builder, graph, debug_assertions).ok

\* A decomposition of two components was built with the checks on.
C1_Witness ==
    /\ Built /\ debug_assertions
    /\ Len(decomposition.components) = 2
    /\ Len(decomposition.blocks) = 2

\* ---- C2

\* The builder, or the decomposition built from it, is there to look at.
Live == Building \/ Built

BothEndpointsIn(g, e, nodes) ==
    /\ Contains(nodes, EdgeEndpoints(g, e)[1])
    /\ Contains(nodes, EdgeEndpoints(g, e)[2])

\* C2: in every builder state reached by calls that returned, and in the
\* built decomposition, an edge's recorded block is k exactly when both its
\* endpoints are members of block k; and add_block panics, creating no
\* block, when its list holds both endpoints of an edge that has a block.
C2_EdgeBlock ==
    /\ Live =>
           \A e \in EdgeIndices(graph), k \in BlockIndices(Current) :
               Current.edge_data[e].block_index = k
                   <=> BothEndpointsIn(graph, e, Current.blocks[k + 1].nodes)
    /\ Building =>
           \A component \in ComponentIndices(builder), nodes \in budget.lists :
               (\E e \in EdgeIndices(graph) :
                    /\ IsSome(builder.edge_data[e].block_index)
                    /\ BothEndpointsIn(graph, e, nodes))
               => LET r == add_block(builder, graph, component, nodes)
                  IN  ~r.ok /\ r.b.blocks = builder.blocks

\* Two blocks were declared and the two edges of the path lie in different
\* ones.
C2_Witness ==
    /\ Built
    /\ Len(decomposition.blocks) = 2
    /\ EdgeCount(graph) = 2
    /\ decomposition.edge_data[0].block_index /= decomposition.edge_data[1].block_index

\* ---- C3

\* C3: after build, a node has a cut node record exactly when it is a
\* member of at least two blocks.
C3_CutNodeIffTwoBlocks ==
    Built =>
        \A n \in NodeIndices(graph) :
            is_cut_node(decomposition, n) <=> Cardinality(BlocksOfNode(decomposition, n)) >= 2

\* ---- C4

\* The pole is a vertex of the SPQR node.
IsVertexOf(d, pole, spqr_node) == Contains(d.spqr_nodes[spqr_node + 1].nodes, pole)

AllFourMemberships(d, endpoints, virtual_edge) ==
    \A i \in 1 .. 2, j \in 1 .. 2 : IsVertexOf(d, virtual_edge[i], endpoints[j])

\* C4: in every builder state and in the built decomposition, both poles
\* of every SPQR edge are vertices of both SPQR nodes it joins; and
\* add_spqr_edge panics, creating no SPQR edge, when one of the four
\* memberships is missing.
C4_Poles ==
    /\ Live =>
           \A k \in SPQREdgeIndices(Current) :
               AllFourMemberships(Current, Current.spqr_edges[k + 1].endpoints,
                                  Current.spqr_edges[k + 1].virtual_edge)
    /\ Building =>
           \A block \in BlockIndices(builder) \cup {OptNone},
              u \in SPQRNodeIndices(builder), v \in SPQRNodeIndices(builder),
              a \in NodeIndices(graph), c \in NodeIndices(graph) :
               ~AllFourMemberships(builder, <<u, v>>, <<a, c>>)
               => LET r == add_spqr_edge(builder, block, <<u, v>>, <<a, c>>)
                  IN  ~r.ok /\ r.b.spqr_edges = builder.spqr_edges

\* An SPQR edge joins two SPQR nodes with different vertex lists.
C4_Witness ==
    /\ Built
    /\ \E k \in SPQREdgeIndices(decomposition) :
           LET se == decomposition.spqr_edges[k + 1] IN
           /\ se.endpoints[1] /= se.endpoints[2]
           /\ Len(decomposition.spqr_nodes[se.endpoints[1] + 1].nodes)
                  /= Len(decomposition.spqr_nodes[se.endpoints[2] + 1].nodes)

\* ---- C5

\* C5: p_node_poles returns a value only for P nodes; for every P node
\* add_spqr_node creates it returns, without panicking, the first two nodes
\* of the list add_spqr_node was passed, in that order; for S and R nodes
\* it returns None.
C5_PNodePoles ==
    /\ Building =>
           \A block \in BlockIndices(builder), nodes \in budget.lists, type \in SPQRNodeTypes :
               LET r == add_spqr_node(builder, block, nodes, type) IN
               r.ok => LET poles == p_node_poles(r.b.spqr_nodes[r.ret + 1]) IN
                       /\ poles.ok
                       /\ poles.some <=> type = "PNode"
                       /\ type = "PNode" => poles.poles = <<nodes[1], nodes[2]>>
    /\ Live =>
           \A k \in SPQRNodeIndices(Current) :
               LET poles == p_node_poles(Current.spqr_nodes[k + 1]) IN
               /\ poles.ok
               /\ poles.some <=> Current.spqr_nodes[k + 1].spqr_node_type = "PNode"

\* A P node of three vertices is part of the built decomposition.
C5_Witness ==
    /\ Built
    /\ \E k \in SPQRNodeIndices(decomposition) :
           /\ decomposition.spqr_nodes[k + 1].spqr_node_type = "PNode"
           /\ Len(decomposition.spqr_nodes[k + 1].nodes) = 3
           /\ p_node_poles(decomposition.spqr_nodes[k + 1]).some

\* ---- C6

\* The bytes of one table as the claim describes them: the element count,
\* then the elements in order.
C6_CountPrefixed(kind, items) ==
    to_ne_bytes(Len(items), UsizeBytes)
        \o Flatten([i \in 1 .. Len(items) |-> Item_write_binary(kind, items[i])])

\* C6: read_binary applied to the bytes write_binary produced for a built
\* decomposition succeeds and returns tables equal to the written ones,
\* element for element; the bytes are the seven tables in their fixed
\* order, each prefixed by its element count, and reading consumes them
\* all.
C6_BinaryRoundTrip ==
    /\ phase = "binary_read" =>
           /\ loaded.ok
           /\ loaded.d.components = decomposition.components
           /\ loaded.d.blocks = decomposition.blocks
           /\ loaded.d.cut_nodes = decomposition.cut_nodes
           /\ loaded.d.spqr_nodes = decomposition.spqr_nodes
           /\ loaded.d.spqr_edges = decomposition.spqr_edges
           /\ loaded.d.node_data = decomposition.node_data
           /\ loaded.d.edge_data = decomposition.edge_data
    /\ phase \in {"binary_written", "binary_read"} =>
           /\ file = C6_CountPrefixed("Component", decomposition.components)
                         \o C6_CountPrefixed("Block", decomposition.blocks)
                         \o C6_CountPrefixed("CutNode", decomposition.cut_nodes)
                         \o C6_CountPrefixed("SPQRNode", decomposition.spqr_nodes)
                         \o C6_CountPrefixed("SPQREdge", decomposition.spqr_edges)
                         \o C6_CountPrefixed("NodeData", Values(decomposition.node_data))
                         \o C6_CountPrefixed("EdgeData", Values(decomposition.edge_data))
           /\ Tables_read_binary(file, 1, <<>>).pos = Len(file) + 1

\* A decomposition in which one node is a cut node and another is not was
\* written and read back.
C6_Witness ==
    /\ phase = "binary_read"
    /\ loaded.ok
    /\ \E n \in NodeIndices(graph) : is_cut_node(loaded.d, n)
    /\ \E n \in NodeIndices(graph) : ~is_cut_node(loaded.d, n)

\* ---- C7

\* C7: for every decomposition that build() returned, reading back the text
\* written for it succeeds, and the text written for what was read has the
\* lines of the first text, each as often, once the edge names of the E
\* lines are replaced by a fixed label.
C7_TextRoundTrip ==
    /\ phase = "text_read" => loaded.ok
    /\ phase = "text_rewritten" => SortedLines(rewritten) = SortedLines(file)

\* ---- C8

\* The list names one node twice.
HasRepeat(nodes) == \E i \in 1 .. Len(nodes), j \in 1 .. Len(nodes) : i < j /\ nodes[i] = nodes[j]

\* The list's nodes are all different.
NoRepeat(nodes) == ~HasRepeat(nodes)

\* C8: add_component panics, creating no component, when a listed node has
\* a component already or is listed twice; so no node is ever listed in
\* two components or twice in one.
C8_ComponentOnce ==
    /\ Building =>
           \A nodes \in budget.lists :
               (\/ \E i \in 1 .. Len(nodes) : IsSome(builder.node_data[nodes[i]].component_index)
                \/ HasRepeat(nodes))
               => LET r == add_component(builder, graph, nodes)
                  IN  ~r.ok /\ r.ret = OptNone /\ r.b.components = builder.components
    /\ Live =>
           /\ \A n \in NodeIndices(graph) : Cardinality(ComponentsOfNode(Current, n)) <= 1
           /\ \A c \in ComponentIndices(Current) : NoRepeat(Current.components[c + 1].nodes)

\* add_component panicked on an assigned node after one component was
\* created.
C8_Witness ==
    /\ phase = "panicked"
    /\ call = [op |-> "add_component", at |-> 84]
    /\ Len(builder.components) = 1

\* ---- C9

\* C9, as stated: add_block panics when a listed node is already a member
\* of another block, and add_spqr_node panics when a listed node is already
\* a vertex of another SPQR node.
C9_RejectsSharedNode ==
    Building =>
        /\ \A component \in ComponentIndices(builder), nodes \in budget.lists :
               (\E i \in 1 .. Len(nodes) : BlocksOfNode(builder, nodes[i]) /= {})
               => ~add_block(builder, graph, component, nodes).ok
        /\ \A block \in BlockIndices(builder), nodes \in budget.lists, type \in budget.types :
               (\E i \in 1 .. Len(nodes) : SPQRNodesOfNode(builder, nodes[i]) /= {})
               => ~add_spqr_node(builder, block, nodes, type).ok

\* What add_block requires of its arguments.
C9_BlockAccepted(b, g, component, nodes) ==
    /\ nodes /= <<>>
    /\ NoRepeat(nodes)
    /\ \A i \in 1 .. Len(nodes) : Contains(b.components[component + 1].nodes, nodes[i])
    /\ \A e \in EdgeIndices(g) :
           BothEndpointsIn(g, e, nodes) => IsNone(b.edge_data[e].block_index)

\* What add_spqr_node requires of its arguments.
C9_SPQRNodeAccepted(b, block, nodes) ==
    /\ Len(nodes) >= 2
    /\ NoRepeat(nodes)
    /\ \A i \in 1 .. Len(nodes) : Contains(b.blocks[block + 1].nodes, nodes[i])

\* C9, amended: add_block and add_spqr_node panic, creating no entity, when
\* a node is listed twice in the call; a node that is a member of another
\* block, or a vertex of another SPQR node, is accepted: the calls return
\* exactly when the list is long enough, names no node twice, stays inside
\* the component (the block) and, for add_block, covers no edge that has a
\* block.
C9_RejectsRepeatedNode ==
    Building =>
        /\ \A component \in ComponentIndices(builder), nodes \in budget.lists :
               LET r == add_block(builder, graph, component, nodes) IN
               /\ r.ok <=> C9_BlockAccepted(builder, graph, component, nodes)
               /\ HasRepeat(nodes) => ~r.ok /\ r.b.blocks = builder.blocks
        /\ \A block \in BlockIndices(builder), nodes \in budget.lists, type \in budget.types :
               LET r == add_spqr_node(builder, block, nodes, type) IN
               /\ r.ok <=> C9_SPQRNodeAccepted(builder, block, nodes)
               /\ HasRepeat(nodes) => ~r.ok /\ r.b.spqr_nodes = builder.spqr_nodes

\* Two blocks share a node and two SPQR nodes share a vertex, and every
\* call returned.
C9_Witness ==
    /\ Building
    /\ \E n \in NodeIndices(graph) : Cardinality(BlocksOfNode(builder, n)) >= 2
    /\ \E n \in NodeIndices(graph) : Cardinality(SPQRNodesOfNode(builder, n)) >= 2

\* ---- C10

\* C10: add_component and add_block with an empty node list, add_cut_node
\* with an empty block list and add_spqr_node with fewer than two nodes
\* panic; none creates an entity or returns an index.
C10_UnderSized ==
    Building =>
        /\ LET r == add_component(builder, graph, <<>>)
           IN  ~r.ok /\ r.ret = OptNone /\ r.b = builder
        /\ \A component \in ComponentIndices(builder) :
               LET r == add_block(builder, graph, component, <<>>)
               IN  ~r.ok /\ r.ret = OptNone /\ r.b = builder
        /\ \A node \in NodeIndices(graph) :
               LET r == add_cut_node(builder, node, <<>>, debug_assertions)
               IN  ~r.ok /\ r.ret = OptNone /\ r.b = builder
        /\ \A block \in BlockIndices(builder), nodes \in budget.lists, type \in budget.types :
               Len(nodes) < 2
               => LET r == add_spqr_node(builder, block, nodes, type)
                  IN  ~r.ok /\ r.ret = OptNone /\ r.b = builder

\* add_spqr_node panicked on its length check, in a builder that has a
\* block.
C10_Witness ==
    /\ phase = "panicked"
    /\ call = [op |-> "add_spqr_node", at |-> 195]
    /\ Len(builder.blocks) >= 1
    /\ builder.spqr_nodes = <<>>

\* ---- C11

\* An endpoint of the edge that has a component.
C11_AssignedEndpoints(d, g, e) ==
    {n \in {EdgeEndpoints(g, e)[1], EdgeEndpoints(g, e)[2]} :
        IsSome(d.node_data[n].component_index)}

\* The call would give a node a component while an edge of the node has its
\* other endpoint in a component already.
C11_SplitsAnEdge(b, g, nodes) ==
    \E e \in EdgeIndices(g), k \in 1 .. 2 :
        /\ Contains(nodes, EdgeEndpoints(g, e)[k])
        /\ IsSome(b.node_data[EdgeEndpoints(g, e)[3 - k]].component_index)

\* C11: in every builder state reached by calls that returned, and in the
\* built decomposition, the component recorded for an edge is the component
\* of each endpoint that has one, so no edge has its endpoints in two
\* components; and an add_component that lists an endpoint of an edge whose
\* other endpoint is in a component already panics.
C11_EdgeComponent ==
    /\ Live =>
           \A e \in EdgeIndices(graph) :
               \A n \in C11_AssignedEndpoints(Current, graph, e) :
                   Current.edge_data[e].component_index
                       = Current.node_data[n].component_index
    /\ Building =>
           \A nodes \in budget.lists :
               C11_SplitsAnEdge(builder, graph, nodes)
                   => ~add_component(builder, graph, nodes).ok

\* Two components were declared, each holding an edge with both endpoints.
C11_Witness ==
    /\ Building
    /\ Len(builder.components) = 2
    /\ \A e \in EdgeIndices(graph) :
           /\ Cardinality(C11_AssignedEndpoints(builder, graph, e)) = 2
           /\ IsSome(builder.edge_data[e].component_index)

\* ---- C12

\* The first byte of every line of a text (0 for an empty line).
RECURSIVE FirstBytes(_, _)
FirstBytes(text, pos) ==
    IF pos > Len(text) THEN <<>>
    ELSE The({ <<IF l.to >= l.from THEN text[l.from] ELSE 0>> \o FirstBytes(text, l.next) :
               l \in {NextLine(text, pos)} })

\* How many lines of a text start with each of the letters, and how many
\* lines it has.
LineCounts(text, letters) ==
    The({ [lines |-> Len(first),
           of    |-> [c \in letters |->
                         Cardinality({i \in 1 .. Len(first) : first[i] = Ascii(c)})]] :
          first \in {FirstBytes(text, 1)} })

\* Every edge has been handed to an SPQR node.
AllEdgesPlaced(b, g) == \A e \in EdgeIndices(g) : IsSome(b.edge_data[e].spqr_node_index)

\* The node list of scenario A.
CycleNodes == <<0, 1, 2, 3>>

\* C12: on the cycle of four nodes, each call of scenario A returns when its
\* turn comes (add_component, add_block and an S-type add_spqr_node over the
\* four nodes, add_edge_to_spqr_node for each edge, in any order of the
\* edges, then build); the decomposition built has 1 component, 1 block, no
\* cut node, 1 SPQR node of type S with 4 nodes and the 4 edges, and no SPQR
\* edge; and the text written for it has exactly one H, one G, one B, one S
\* and four E lines and no other line.
C12_ScenarioA ==
    graph = Cycle4 =>
        /\ Building =>
               /\ Len(builder.components) = 0
                      => add_component(builder, graph, CycleNodes).ok
               /\ (Len(builder.components) = 1 /\ Len(builder.blocks) = 0)
                      => add_block(builder, graph, 0, CycleNodes).ok
               /\ (Len(builder.blocks) = 1 /\ Len(builder.spqr_nodes) = 0)
                      => add_spqr_node(builder, 0, CycleNodes, "SNode").ok
               /\ Len(builder.spqr_nodes) = 1 =>
                      \A e \in EdgeIndices(graph) :
                          IsNone(builder.edge_data[e].spqr_node_index)
                              => add_edge_to_spqr_node(builder, graph, e, 0).ok
               /\ AllEdgesPlaced(builder, graph)
                      => build(builder, graph, debug_assertions).ok
        /\ phase \in {"built", "text_written"} =>
               /\ Len(decomposition.components) = 1
               /\ Len(decomposition.blocks) = 1
               /\ Len(decomposition.cut_nodes) = 0
               /\ Len(decomposition.spqr_nodes) = 1
               /\ Len(decomposition.spqr_edges) = 0
               /\ decomposition.spqr_nodes[1].spqr_node_type = "SNode"
               /\ Len(decomposition.spqr_nodes[1].nodes) = 4
               /\ Len(decomposition.spqr_nodes[1].edges) = 4
               /\ SPQRNodesOfEdge(decomposition, 0) = {0}
               /\ \A e \in EdgeIndices(graph) : Contains(decomposition.spqr_nodes[1].edges, e)
        /\ phase = "text_written" =>
               LineCounts(file, {"H", "G", "B", "S", "E", "V", "C"})
                   = [lines |-> 8,
                      of    |-> [c \in {"H", "G", "B", "S", "E", "V", "C"} |->
                                    CASE c \in {"H", "G", "B", "S"} -> 1
                                      [] c = "E" -> 4
                                      [] OTHER -> 0]]

\* The text of scenario A was written, its edges handed over last edge first.
C12_Witness ==
    /\ graph = Cycle4
    /\ phase = "text_written"
    /\ decomposition.spqr_nodes[1].edges = <<3, 2, 1, 0>>

\* ---- C13

\* The node lists of scenario B: the component and the two triangles.
TriangleNodes == {<<0, 1, 2>>, <<2, 3, 4>>}
BothTriangles == <<0, 1, 2, 3, 4>>

\* The calls made so far are calls of scenario B: the component over all
\* nodes, a block per triangle, an S node over the nodes of its block.
C13_OnScenario(d) ==
    /\ \A c \in ComponentIndices(d) : d.components[c + 1].nodes = BothTriangles
    /\ \A k \in BlockIndices(d) : d.blocks[k + 1].nodes \in TriangleNodes
    /\ \A k, l \in BlockIndices(d) : k /= l => d.blocks[k + 1].nodes /= d.blocks[l + 1].nodes
    /\ \A k \in BlockIndices(d) : Len(d.blocks[k + 1].spqr_nodes) <= 1
    /\ \A k \in SPQRNodeIndices(d) :
           /\ d.spqr_nodes[k + 1].spqr_node_type = "SNode"
           /\ d.spqr_nodes[k + 1].nodes = d.blocks[d.spqr_nodes[k + 1].block + 1].nodes

\* C13: on two triangles sharing node 2, with no add_cut_node call, each
\* call of scenario B returns when its turn comes (the component, a block
\* per triangle, an S node per block, each edge to the S node of its
\* triangle, then build); the decomposition built has 1 component, 2 blocks,
\* exactly 1 cut node, which is node 2, is adjacent to both blocks and is
\* listed by both blocks and by the component, 2 SPQR nodes of type S with 3
\* nodes and 3 edges each, and no SPQR edge.
C13_ScenarioB ==
    graph = TwoTriangles =>
        /\ (Building /\ C13_OnScenario(builder)) =>
               /\ Len(builder.components) = 0
                      => add_component(builder, graph, BothTriangles).ok
               /\ Len(builder.components) = 1 =>
                      \A nodes \in TriangleNodes :
                          (\A k \in BlockIndices(builder) : builder.blocks[k + 1].nodes /= nodes)
                              => add_block(builder, graph, 0, nodes).ok
               /\ \A k \in BlockIndices(builder) :
                      builder.blocks[k + 1].spqr_nodes = <<>>
                          => add_spqr_node(builder, k, builder.blocks[k + 1].nodes, "SNode").ok
               /\ \A k \in SPQRNodeIndices(builder), e \in EdgeIndices(graph) :
                      (/\ IsNone(builder.edge_data[e].spqr_node_index)
                       /\ BothEndpointsIn(graph, e, builder.spqr_nodes[k + 1].nodes))
                          => add_edge_to_spqr_node(builder, graph, e, k).ok
               /\ (Len(builder.spqr_nodes) = 2 /\ AllEdgesPlaced(builder, graph))
                      => build(builder, graph, debug_assertions).ok
        /\ (Built /\ C13_OnScenario(decomposition)) =>
               /\ Len(decomposition.components) = 1
               /\ Len(decomposition.blocks) = 2
               /\ Len(decomposition.cut_nodes) = 1
               /\ decomposition.cut_nodes[1].node = 2
               /\ decomposition.cut_nodes[1].adjacent_blocks \in {<<0, 1>>, <<1, 0>>}
               /\ decomposition.node_data[2].cut_node_index = OptSome(0)
               /\ decomposition.components[1].cut_nodes = <<0>>
               /\ \A k \in 1 .. 2 : decomposition.blocks[k].cut_nodes = <<0>>
               /\ Len(decomposition.spqr_nodes) = 2
               /\ \A k \in 1 .. 2 :
                      /\ decomposition.spqr_nodes[k].spqr_node_type = "SNode"
                      /\ Len(decomposition.spqr_nodes[k].nodes) = 3
                      /\ Len(decomposition.spqr_nodes[k].edges) = 3
                      /\ \A i \in 1 .. 3 :
                             BothEndpointsIn(graph, decomposition.spqr_nodes[k].edges[i],
                                             decomposition.spqr_nodes[k].nodes)
               /\ Len(decomposition.spqr_edges) = 0

\* Scenario B was built, the second triangle declared first.
C13_Witness ==
    /\ graph = TwoTriangles
    /\ Built
    /\ C13_OnScenario(decomposition)
    /\ decomposition.blocks[1].nodes = <<2, 3, 4>>
    /\ Len(decomposition.cut_nodes) = 1

\* ---- C14

\* read has returned; the line it returned on is a record after the header,
\* and reader.st is what read held before that line.
ReturnedOnRecord == phase = "read" /\ reader.pos > 1 /\ reader.line /= <<>>

\* The line read returned on is of one of the types.
LineIs(types) == \E type \in types : reader.line[1] = Str(<<type>>)

\* The name is declared in the map of the reader.
Known(map, name) == name \in DOMAIN reader.st[map]

\* C14: a record that declares nothing makes read return its typed error,
\* not the panic of the builder call: EmptyComponent for a G record with its
\* name and no node, EmptyBlock for a B record with its name, a declared
\* component and no node, EmptyCutNode for a C record with a node of the
\* graph and no block, LessThanTwoNodesInSPQRNode for an S, P or R record
\* with its name, a declared block and no node or one node of the graph.
C14_EmptyDeclarations ==
    ReturnedOnRecord =>
        /\ (LineIs({"G"}) /\ Len(reader.line) = 2)
               => loaded = LoadErr("EmptyComponent")
        /\ (LineIs({"B"}) /\ Len(reader.line) = 3
                /\ Known("name_to_component_index", reader.line[3]))
               => loaded = LoadErr("EmptyBlock")
        /\ (LineIs({"C"}) /\ Len(reader.line) = 2
                /\ node_index_from_name(graph, reader.line[2]).some)
               => loaded = LoadErr("EmptyCutNode")
        /\ (LineIs({"S", "P", "R"}) /\ Len(reader.line) \in {3, 4}
                /\ Known("name_to_block_index", reader.line[3])
                /\ \A i \in 4 .. Len(reader.line) :
                       node_index_from_name(graph, reader.line[i]).some)
               => loaded = LoadErr("LessThanTwoNodesInSPQRNode")

\* read returned EmptyComponent on a G record that follows the declaration
\* of a component.
C14_Witness ==
    /\ ReturnedOnRecord
    /\ LineIs({"G"})
    /\ Len(reader.line) = 2
    /\ Len(reader.st.builder.components) = 1
    /\ loaded = LoadErr("EmptyComponent")

\* ---- C15

\* C15: read returns MissingHeader when the text has no line that is neither
\* blank nor a comment, or when the first token of the first such line is
\* not H; UnsupportedVersion when that token is H and the second token is
\* absent or not v0.1, whether or not a third follows; MissingHeaderUrl when
\* the first two tokens are H and v0.1 and there is no third; and then it
\* has read no record and made no builder.  Otherwise it goes on to the
\* records.
C15_Header ==
    phase /= "header" =>
        LET header == read_next_line(file, 1)
            failed(error) ==
                /\ phase = "read"
                /\ loaded = LoadErr(error)
                /\ reader = [NoReader EXCEPT !.line = header.line, !.pos = 1]
        IN  header.error = "" =>
                IF ~header.some \/ header.line[1] /= Str(<<"H">>)
                THEN failed("MissingHeader")
                ELSE IF Len(header.line) < 2 \/ header.line[2] /= Str(<<"v", "0", ".", "1">>)
                THEN failed("UnsupportedVersion")
                ELSE IF Len(header.line) < 3
                THEN failed("MissingHeaderUrl")
                ELSE reader.pos > 1

\* read returned UnsupportedVersion on the header H, which has neither a
\* version nor a URL.
C15_Witness ==
    /\ phase = "read"
    /\ reader.line = <<Str(<<"H">>)>>
    /\ loaded = LoadErr("UnsupportedVersion")

\* ---- C16

\* A line of the text from position pos on declares the name in a record of
\* one of the types.
RECURSIVE DeclaredLater(_, _, _, _)
DeclaredLater(text, pos, types, name) ==
    The({ /\ next.some
          /\ \/ /\ \E type \in types : next.line[1] = Str(<<type>>)
                /\ Len(next.line) >= 2
                /\ next.line[2] = name
             \/ DeclaredLater(text, next.pos, types, name) :
          next \in {read_next_line(text, pos)} })

\* The nodes of the two names are joined by an edge of the graph.
Joined(g, name_u, name_v) ==
    /\ node_index_from_name(g, name_u).some
    /\ node_index_from_name(g, name_v).some
    /\ edges_between(g, node_index_from_name(g, name_u).index,
                     node_index_from_name(g, name_v).index) /= <<>>

\* C16: a record that names a component, block or SPQR node no earlier line
\* declared makes read return the unknown-name error with that name,
\* whatever the later lines declare: a B record its component; an S, P or R
\* record its block; a C record (of a node of the graph) its first such
\* block; a V record its first such SPQR node; an E record (of two nodes
\* joined by an edge) its SPQR node and, that one declared, its block.
C16_SinglePass ==
    ReturnedOnRecord =>
        /\ (LineIs({"B"}) /\ Len(reader.line) >= 3
                /\ ~Known("name_to_component_index", reader.line[3]))
               => loaded = LoadErrNamed("UnknownComponentName", reader.line[3])
        /\ (LineIs({"S", "P", "R"}) /\ Len(reader.line) >= 3
                /\ ~Known("name_to_block_index", reader.line[3]))
               => loaded = LoadErrNamed("UnknownBlockName", reader.line[3])
        /\ (LineIs({"C"}) /\ Len(reader.line) >= 3
                /\ node_index_from_name(graph, reader.line[2]).some)
               => \A i \in 3 .. Len(reader.line) :
                      (/\ ~Known("name_to_block_index", reader.line[i])
                       /\ \A j \in 3 .. (i - 1) : Known("name_to_block_index", reader.line[j]))
                          => loaded = LoadErrNamed("UnknownBlockName", reader.line[i])
        /\ (LineIs({"V"}) /\ Len(reader.line) >= 6)
               => \A i \in 3 .. 4 :
                      (/\ ~Known("name_to_spqr_node_index", reader.line[i])
                       /\ \A j \in 3 .. (i - 1) :
                              Known("name_to_spqr_node_index", reader.line[j]))
                          => loaded = LoadErrNamed("UnknownSPQRNodeName", reader.line[i])
        /\ (LineIs({"E"}) /\ Len(reader.line) >= 6
                /\ Joined(graph, reader.line[5], reader.line[6]))
               => /\ ~Known("name_to_spqr_node_index", reader.line[3])
                      => loaded = LoadErrNamed("UnknownSPQRNodeName", reader.line[3])
                  /\ (/\ Known("name_to_spqr_node_index", reader.line[3])
                      /\ ~Known("name_to_block_index", reader.line[4]))
                      => loaded = LoadErrNamed("UnknownBlockName", reader.line[4])

\* read returned UnknownBlockName on an E record whose block a later line
\* of the file declares.
C16_Witness ==
    /\ ReturnedOnRecord
    /\ LineIs({"E"})
    /\ loaded = LoadErrNamed("UnknownBlockName", reader.line[4])
    /\ DeclaredLater(file, reader.pos, {"B"}, reader.line[4])


\* ---- C17

\* The tokens at the given places of a line, where it has them.
TokensAt(line, places) == {line[i] : i \in places \cap (1 .. Len(line))}

\* The names a record refers to: the component of a B line, the blocks of a
\* C line, the block of an S, P or R line, the SPQR node and the block of an
\* E line, the two SPQR nodes of a V line.
Referenced(line) ==
    CASE line[1] = Str(<<"B">>) -> TokensAt(line, {3})
      [] line[1] = Str(<<"C">>) -> TokensAt(line, 3 .. Len(line))
      [] line[1] \in {Str(<<"S">>), Str(<<"P">>), Str(<<"R">>)} -> TokensAt(line, {3})
      [] line[1] \in {Str(<<"E">>), Str(<<"V">>)} -> TokensAt(line, {3, 4})
      [] OTHER -> {}

\* The name a record declares: that of its component, block, SPQR node or
\* SPQR edge.
Declares(line) ==
    IF line[1] \in {Str(<<"G">>), Str(<<"B">>), Str(<<"S">>), Str(<<"P">>), Str(<<"R">>),
                    Str(<<"V">>)}
    THEN TokensAt(line, {2})
    ELSE {}

\* A line is one whole record: it starts with a line type, and a C line
\* names at least one block.
WholeRecord(line) ==
    /\ line[1] \in {Str(<<"H">>), Str(<<"N">>), Str(<<"G">>), Str(<<"C">>), Str(<<"B">>),
                    Str(<<"S">>), Str(<<"P">>), Str(<<"R">>), Str(<<"V">>), Str(<<"E">>)}
    /\ line[1] = Str(<<"C">>) => Len(line) >= 3

\* From position pos on, every line of the text is one whole record and
\* refers only to names that are declared, on the lines before pos or on
\* an earlier one of these lines.
RECURSIVE InDeclarationOrder(_, _, _)
InDeclarationOrder(text, pos, declared) ==
    The({ IF ~next.some THEN next.error = ""
          ELSE /\ WholeRecord(next.line)
               /\ Referenced(next.line) \subseteq declared
               /\ InDeclarationOrder(text, next.pos, declared \cup Declares(next.line)) :
          next \in {read_next_line(text, pos)} })

\* C17: the text written for a decomposition that build() returned has one
\* record on every line, each referring only to names declared on earlier
\* lines, and reading that text back returns a decomposition, never an
\* error.
C17_DeclarationOrder ==
    /\ phase = "text_written" => InDeclarationOrder(file, 1, {})
    /\ phase = "text_read" => loaded.ok


\* ---- C18

\* The V record read returned on names two declared SPQR nodes and two
\* nodes of the graph as poles.
ResolvedVLine ==
    /\ ReturnedOnRecord
    /\ LineIs({"V"})
    /\ Len(reader.line) >= 6
    /\ Known("name_to_spqr_node_index", reader.line[3])
    /\ Known("name_to_spqr_node_index", reader.line[4])
    /\ node_index_from_name(graph, reader.line[5]).some
    /\ node_index_from_name(graph, reader.line[6]).some

\* The two SPQR nodes of that V record are of different blocks.
DifferentBlocks ==
    spqr_node_block_index(reader.st.builder, reader.st.name_to_spqr_node_index[reader.line[3]])
        /= spqr_node_block_index(reader.st.builder,
                                 reader.st.name_to_spqr_node_index[reader.line[4]])

\* C18: a V record whose SPQR nodes are declared, in different blocks, and
\* whose poles are nodes of the graph makes read return
\* SPQREdgeBetweenDifferentBlocks with the name of the SPQR edge, not the
\* panic add_spqr_edge raises for such a pair; and the builder of the reader
\* never holds an SPQR edge between SPQR nodes of different blocks.
C18_DifferentBlocks ==
    /\ (ResolvedVLine /\ DifferentBlocks)
           => loaded = LoadErrNamed("SPQREdgeBetweenDifferentBlocks", reader.line[2])
    /\ phase \in {"records", "read"} /\ reader.pos > 1
           => \A i \in 1 .. Len(reader.st.builder.spqr_edges) :
                  spqr_node_block_index(reader.st.builder,
                                        reader.st.builder.spqr_edges[i].endpoints[1])
                      = spqr_node_block_index(reader.st.builder,
                                              reader.st.builder.spqr_edges[i].endpoints[2])

\* read returned on a V record between SPQR nodes of different blocks,
\* after an earlier V record had added an SPQR edge.
C18_Witness ==
    /\ ResolvedVLine
    /\ DifferentBlocks
    /\ Len(reader.st.builder.spqr_edges) = 1
    /\ ~loaded.ok


\* ---- C19

\* The E record read returned on names two nodes of the graph that no edge
\* of the graph joins.
UnjoinedELine ==
    /\ ReturnedOnRecord
    /\ LineIs({"E"})
    /\ Len(reader.line) >= 6
    /\ node_index_from_name(graph, reader.line[5]).some
    /\ node_index_from_name(graph, reader.line[6]).some
    /\ ~Joined(graph, reader.line[5], reader.line[6])

\* C19: an E record whose two names are nodes of the graph that no edge
\* joins makes read return EdgeDoesNotExist with the name of the edge, and
\* with it no decomposition, whether or not its SPQR node and its block are
\* declared; add_edge_to_spqr_node is not reached, so no SPQR node of the
\* reader's builder gains an edge.
C19_EdgeDoesNotExist ==
    UnjoinedELine =>
        /\ loaded = LoadErrNamed("EdgeDoesNotExist", reader.line[2])
        /\ ~loaded.ok
        /\ loaded.d = <<>>

\* read returned on an E record between the two ends of the path, which no
\* edge joins, with the SPQR node and the block of the record declared.
C19_Witness ==
    /\ UnjoinedELine
    /\ loaded.error = "EdgeDoesNotExist"
    /\ Known("name_to_spqr_node_index", reader.line[3])
    /\ Known("name_to_block_index", reader.line[4])


\* ---- C20

\* The number of builder operations a builder has gone through: every
\* component, block, cut node, SPQR node and SPQR edge it holds was added by
\* one, as was every annotation of a node and every edge placed in an SPQR
\* node.
BuilderCalls(b, g) ==
    Len(b.components) + Len(b.blocks) + Len(b.cut_nodes) + Len(b.spqr_nodes)
        + Len(b.spqr_edges)
        + Cardinality({n \in NodeIndices(g) : b.node_data[n].extra_data /= <<>>})
        + Cardinality({e \in EdgeIndices(g) : IsSome(b.edge_data[e].spqr_node_index)})

\* A line of valid UTF-8 with nothing but white space before its first '#',
\* if it has one, and nothing but white space at all, if it has none.
BlankOrComment(line) ==
    /\ ValidUtf8From(line, 1)
    /\ \A i \in 1 .. Len(line) :
           line[i] \in Whitespace \/ \E j \in 1 .. i : line[j] = Ascii("#")

\* The file is that of the nine records with one more line after the k-th.
WithLine(k, line) ==
    file = FileOf(<<Header>> \o SubSeq(Records, 1, k) \o <<line>>
                      \o SubSeq(Records, k + 1, Len(Records)))

\* read returned an error on a record.
FailedOnRecord == ReturnedOnRecord /\ ~loaded.ok /\ loaded.error /= "panic"

\* C20: when read returns an error on a record, it is the result of reading
\* the file cut after that record, so no later line has a part in it, and
\* no decomposition comes with it; the builder of the reader has gone
\* through one operation for every record read took before that one and
\* through none for that record or a later one; and a file with one more
\* line that is blank or only a comment reads like the file without it.
C20_StopsAtFirstError ==
    /\ FailedOnRecord
           => /\ loaded = read(graph, SubSeq(file, 1, reader.pos - 1), debug_assertions)
              /\ loaded.d = <<>>
    /\ (phase \in {"records", "read"} /\ reader.pos > 1)
           => BuilderCalls(reader.st.builder, graph) = reader.records
    /\ phase = "read"
           => \A k \in 0 .. Len(Records), line \in OtherLines :
                  (BlankOrComment(line) /\ WithLine(k, line))
                      => /\ loaded.ok
                         /\ loaded = read(graph, FileOf(<<Header>> \o Records),
                                          debug_assertions)

\* read returned an error on a record after it had taken records before it,
\* with a further record left in the file.
C20_Witness ==
    /\ FailedOnRecord
    /\ reader.records >= 2
    /\ read_next_line(file, reader.pos).some


\* ---- C21

\* The sequence new starts with the sequence old.
StartsWith(new, old) == Len(new) >= Len(old) /\ SubSeq(new, 1, Len(old)) = old

\* The assignment is unset, or the new one is the same.
Keeps(old, new) == IsSome(old) => new = old

\* Every assignment that the tables old hold is held by the tables new, and
\* every membership list of new starts with that of old.
KeepsAssignments(g, old, new) ==
    /\ \A n \in NodeIndices(g) :
           /\ Keeps(old.node_data[n].component_index, new.node_data[n].component_index)
           /\ Keeps(old.node_data[n].cut_node_index, new.node_data[n].cut_node_index)
           /\ StartsWith(new.node_data[n].block_indices, old.node_data[n].block_indices)
           /\ StartsWith(new.node_data[n].spqr_node_indices,
                         old.node_data[n].spqr_node_indices)
    /\ \A e \in EdgeIndices(g) :
           /\ Keeps(old.edge_data[e].component_index, new.edge_data[e].component_index)
           /\ Keeps(old.edge_data[e].block_index, new.edge_data[e].block_index)
           /\ Keeps(old.edge_data[e].spqr_node_index, new.edge_data[e].spqr_node_index)

\* C21: no builder operation, build() included, and whether it returns or
\* panicks half way, changes the component of a node or of an edge, the
\* block or the SPQR node of an edge, or the cut node of a node once it is
\* set, and each only appends to the block list and the SPQR node list of a
\* node; the decomposition build() returns holds the assignments the
\* builder held.
C21_WriteOnce ==
    [][phase = "building"
           => KeepsAssignments(graph, builder,
                               IF phase' = "built" THEN decomposition' ELSE builder')]_vars

\* build() returned after the builder had given an edge its component, its
\* block and its SPQR node, and a node two blocks and a cut node.
C21_Witness ==
    /\ phase = "built"
    /\ \E e \in EdgeIndices(graph) :
           /\ IsSome(builder.edge_data[e].component_index)
           /\ IsSome(builder.edge_data[e].block_index)
           /\ IsSome(builder.edge_data[e].spqr_node_index)
    /\ \E n \in NodeIndices(graph) :
           /\ IsSome(decomposition.node_data[n].cut_node_index)
           /\ Len(builder.node_data[n].block_indices) >= 2


\* ---- C22

\* C22: whatever bytes read_binary is given, a written file, one cut short
\* or one with a byte replaced, it returns a decomposition or an I/O error;
\* it never panics.
C22_OnlyIoErrors ==
    phase = "binary_read" => loaded.ok \/ (loaded.error = "UnexpectedEof" /\ loaded.at = 0)


\* ---- C24

\* C24: whatever text a call of add_extra_data_to_node that returned gave a
\* node, the empty text included, a second call for that node panics and
\* leaves the text of the node as the first call set it.
C24_AnnotatedOnce ==
    Building =>
        \A node \in NodeIndices(graph), first \in Texts, second \in Texts :
            LET once == add_extra_data_to_node(builder, node, first)
                twice == add_extra_data_to_node(once.b, node, second)
            IN  once.ok => /\ ~twice.ok
                           /\ twice.b.node_data[node].extra_data = first


\* ---- C25

\* How often a sequence holds a value.
Times(s, x) == Cardinality({i \in 1 .. Len(s) : s[i] = x})

\* C25: in the builder and in the built decomposition, no SPQR node lists
\* an SPQR edge twice, also not one whose two endpoints are the same SPQR
\* node; an SPQR edge is listed by an SPQR node exactly when that node is
\* one of its endpoints; and it is listed once by one block and by no
\* other.
C25_Incidence ==
    (Building \/ Built) =>
        \A e \in 0 .. (Len(Current.spqr_edges) - 1) :
            /\ \A k \in 0 .. (Len(Current.spqr_nodes) - 1) :
                   Times(Current.spqr_nodes[k + 1].spqr_edges, e)
                       = IF k = Current.spqr_edges[e + 1].endpoints[1]
                            \/ k = Current.spqr_edges[e + 1].endpoints[2]
                         THEN 1 ELSE 0
            /\ Cardinality({j \in 0 .. (Len(Current.blocks) - 1) :
                                Contains(Current.blocks[j + 1].spqr_edges, e)}) = 1
            /\ \A j \in 0 .. (Len(Current.blocks) - 1) :
                   Times(Current.blocks[j + 1].spqr_edges, e) <= 1


\* ---- C26

\* The block of an SPQR node of the builder.
BlockOf(k) == builder.spqr_nodes[k + 1].block

\* C26: add_spqr_edge without a block panics when its endpoints are of
\* different blocks; with a block it panics unless both endpoints are of
\* that block; and when it returns, the new SPQR edge is the last of the
\* SPQR-edge list of the block of its two endpoints, which with an explicit
\* block is the one given, and the lists of the other blocks are as before.
C26_BlockOfSPQREdge ==
    Building =>
        \A block \in (0 .. (Len(builder.blocks) - 1)) \cup {OptNone},
           u \in 0 .. (Len(builder.spqr_nodes) - 1),
           v \in 0 .. (Len(builder.spqr_nodes) - 1),
           a \in NodeIndices(graph), c \in NodeIndices(graph) :
            LET r == add_spqr_edge(builder, block, <<u, v>>, <<a, c>>) IN
                /\ (IsNone(block) /\ BlockOf(u) /= BlockOf(v)) => ~r.ok
                /\ (IsSome(block) /\ (BlockOf(u) /= block \/ BlockOf(v) /= block)) => ~r.ok
                /\ r.ok =>
                       /\ BlockOf(u) = BlockOf(v)
                       /\ IsSome(block) => block = BlockOf(u)
                       /\ r.ret = Len(builder.spqr_edges)
                       /\ \A j \in 0 .. (Len(builder.blocks) - 1) :
                              r.b.blocks[j + 1].spqr_edges
                                  = IF j = BlockOf(u)
                                    THEN Append(builder.blocks[j + 1].spqr_edges, r.ret)
                                    ELSE builder.blocks[j + 1].spqr_edges

\* add_spqr_edge returned in a builder of two blocks, each with an SPQR
\* node: the SPQR edge is in the list of one of them.
C26_Witness ==
    /\ Building
    /\ Len(builder.blocks) = 2
    /\ Len(builder.spqr_edges) = 1
    /\ builder.blocks[1].spqr_edges \o builder.blocks[2].spqr_edges = <<0>>
    /\ \E k \in 1 .. Len(builder.spqr_nodes) : builder.spqr_nodes[k].block = 0
    /\ \E k \in 1 .. Len(builder.spqr_nodes) : builder.spqr_nodes[k].block = 1


\* ---- C27

\* What add_cut_node(node, block_list) is to leave behind when it returns:
\* the new cut node is the cut node of the node, has the component of the
\* node, and is the new last entry of the cut-node list of that component
\* and of each listed block, the lists of the other blocks being as before.
RegisteredOnce(r, node, block_list) ==
    /\ r.ret = Len(builder.cut_nodes)
    /\ r.b.node_data[node].cut_node_index = OptSome(r.ret)
    /\ r.b.cut_nodes[r.ret + 1].node = node
    /\ r.b.cut_nodes[r.ret + 1].component = builder.node_data[node].component_index
    /\ r.b.cut_nodes[r.ret + 1].adjacent_blocks = block_list
    /\ \A k \in 0 .. (Len(builder.components) - 1) :
           r.b.components[k + 1].cut_nodes
               = IF k = builder.node_data[node].component_index
                 THEN Append(builder.components[k + 1].cut_nodes, r.ret)
                 ELSE builder.components[k + 1].cut_nodes
    /\ \A j \in 0 .. (Len(builder.blocks) - 1) :
           r.b.blocks[j + 1].cut_nodes
               = IF Contains(block_list, j)
                 THEN Append(builder.blocks[j + 1].cut_nodes, r.ret)
                 ELSE builder.blocks[j + 1].cut_nodes

\* C27: add_cut_node panics for a node that has a cut node; when it
\* returns, the new cut node is registered once on the node, on its
\* component and on each listed block, and on no other block.
C27_CutNodeRegistered ==
    Building =>
        \A node \in NodeIndices(graph), block_list \in BlockLists(builder, budget.len) :
            LET r == add_cut_node(builder, node, block_list, debug_assertions) IN
                /\ IsSome(builder.node_data[node].cut_node_index) => ~r.ok
                /\ r.ok => RegisteredOnce(r, node, block_list)


\* ---- C28

\* The nodes build() is to give a cut node: those of two blocks or more for
\* which the builder holds none.
ToInfer ==
    {n \in NodeIndices(graph) :
         /\ IsNone(builder.node_data[n].cut_node_index)
         /\ Len(builder.node_data[n].block_indices) >= 2}

\* The index the cut node of such a node is to get: those of the builder
\* come first, then the inferred ones in the order of the nodes.
InferredIndex(n) == Len(builder.cut_nodes) + Cardinality({m \in ToInfer : m < n})

\* The indices of the inferred cut nodes of the nodes in the set, in the
\* order of the nodes.
InferredFor(nodes) ==
    LET chosen == SelectSeq([i \in 1 .. NodeCount(graph) |-> i - 1],
                            LAMBDA n : n \in ToInfer \cap nodes)
    IN  [i \in 1 .. Len(chosen) |-> InferredIndex(chosen[i])]

\* C28: the decomposition build() returns has the cut nodes of the builder,
\* unchanged, followed by one for every node of two blocks or more that
\* had none, in the order of the nodes; each of these has the component of
\* its node and the blocks of its node in the order they were added, is
\* the cut node of its node, and is appended to the cut-node list of that
\* component and of each of those blocks; no other node gets a cut node.
C28_InferredCutNodes ==
    Built =>
        /\ Len(decomposition.cut_nodes) = Len(builder.cut_nodes) + Cardinality(ToInfer)
        /\ SubSeq(decomposition.cut_nodes, 1, Len(builder.cut_nodes)) = builder.cut_nodes
        /\ \A n \in NodeIndices(graph) :
               IF n \in ToInfer
               THEN /\ decomposition.node_data[n].cut_node_index = OptSome(InferredIndex(n))
                    /\ decomposition.cut_nodes[InferredIndex(n) + 1]
                           = [component       |-> builder.node_data[n].component_index,
                              node            |-> n,
                              adjacent_blocks |-> builder.node_data[n].block_indices]
               ELSE decomposition.node_data[n].cut_node_index
                        = builder.node_data[n].cut_node_index
        /\ \A k \in 0 .. (Len(builder.components) - 1) :
               decomposition.components[k + 1].cut_nodes
                   = builder.components[k + 1].cut_nodes
                         \o InferredFor({n \in NodeIndices(graph) :
                                             builder.node_data[n].component_index = k})
        /\ \A j \in 0 .. (Len(builder.blocks) - 1) :
               decomposition.blocks[j + 1].cut_nodes
                   = builder.blocks[j + 1].cut_nodes
                         \o InferredFor({n \in NodeIndices(graph) :
                                             Contains(builder.node_data[n].block_indices, j)})

\* build() returned for a builder that held one cut node and gave two more
\* nodes theirs.
C28_Witness ==
    /\ Built
    /\ Len(builder.cut_nodes) = 1
    /\ Cardinality(ToInfer) = 2
    /\ Len(decomposition.cut_nodes) = 3


\* ---- C29

\* C29: every cut node of a built decomposition has two adjacent blocks or
\* more, no block twice, and its node is among the nodes of each of them.
C29_AdjacentBlocks ==
    Built =>
        \A i \in 1 .. Len(decomposition.cut_nodes) :
            LET cut_node == decomposition.cut_nodes[i] IN
                /\ Len(cut_node.adjacent_blocks) >= 2
                /\ NoRepeat(cut_node.adjacent_blocks)
                /\ \A j \in 1 .. Len(cut_node.adjacent_blocks) :
                       Contains(decomposition.blocks[cut_node.adjacent_blocks[j] + 1].nodes,
                                cut_node.node)


\* ---- C30

\* The node is one of the two poles of an SPQR edge of the decomposition.
IsPole(d, n) ==
    \E k \in 1 .. Len(d.spqr_edges) :
        n = d.spqr_edges[k].virtual_edge[1] \/ n = d.spqr_edges[k].virtual_edge[2]

\* C30: in a built decomposition has_incident_virtual_edge holds of a node
\* exactly when the node is a pole of some SPQR edge.
C30_VirtualEdgeIffPole ==
    Built =>
        \A n \in NodeIndices(graph) :
            has_incident_virtual_edge(decomposition, n) <=> IsPole(decomposition, n)


\* ---- C31

\* Every edge of the graph is in the edge list of no SPQR node but the one
\* its record names, and in that one once.
EdgeListedByItsSPQRNode(d, g) ==
    \A e \in EdgeIndices(g), k \in SPQRNodeIndices(d) :
        Times(d.spqr_nodes[k + 1].edges, e)
            = IF d.edge_data[e].spqr_node_index = OptSome(k) THEN 1 ELSE 0

\* C31: add_edge_to_spqr_node panics when the edge has an SPQR node already
\* and when an endpoint of the edge is not a node of the SPQR node given, and
\* returns otherwise; so in the builder and in the built decomposition each
\* edge is listed by at most one SPQR node, once, the one its record names.
C31_EdgeOfOneSPQRNode ==
    /\ (Building \/ Built) => EdgeListedByItsSPQRNode(Current, graph)
    /\ Building =>
           \A e \in EdgeIndices(graph), k \in SPQRNodeIndices(builder) :
               LET r == add_edge_to_spqr_node(builder, graph, e, k) IN
                   /\ r.ok <=>
                          /\ IsNone(builder.edge_data[e].spqr_node_index)
                          /\ Contains(builder.spqr_nodes[k + 1].nodes,
                                      EdgeEndpoints(graph, e)[1])
                          /\ Contains(builder.spqr_nodes[k + 1].nodes,
                                      EdgeEndpoints(graph, e)[2])
                   /\ r.ok => EdgeListedByItsSPQRNode(r.b, graph)

\* Two SPQR nodes hold the two endpoints of an edge, which was added to one
\* of them: a second call for the edge panics for either SPQR node.
C31_Witness ==
    /\ Building
    /\ \E e \in EdgeIndices(graph), k \in SPQRNodeIndices(builder),
          l \in SPQRNodeIndices(builder) :
           /\ k /= l
           /\ builder.edge_data[e].spqr_node_index = OptSome(k)
           /\ Contains(builder.spqr_nodes[k + 1].edges, e)
           /\ Contains(builder.spqr_nodes[l + 1].nodes, EdgeEndpoints(graph, e)[1])
           /\ Contains(builder.spqr_nodes[l + 1].nodes, EdgeEndpoints(graph, e)[2])
           /\ ~add_edge_to_spqr_node(builder, graph, e, l).ok
    /\ \E e \in EdgeIndices(graph), k \in SPQRNodeIndices(builder) :
           /\ IsNone(builder.edge_data[e].spqr_node_index)
           /\ ~Contains(builder.spqr_nodes[k + 1].nodes, EdgeEndpoints(graph, e)[1])
           /\ ~add_edge_to_spqr_node(builder, graph, e, k).ok


\* ---- C32

\* Every node of a block has the component of the block, and every node of
\* an SPQR node is a node of the block of the SPQR node.
Contained(b) ==
    /\ \A j \in BlockIndices(b) :
           \A i \in 1 .. Len(b.blocks[j + 1].nodes) :
               b.node_data[b.blocks[j + 1].nodes[i]].component_index
                   = OptSome(b.blocks[j + 1].component)
    /\ \A k \in SPQRNodeIndices(b) :
           \A i \in 1 .. Len(b.spqr_nodes[k + 1].nodes) :
               Contains(b.blocks[b.spqr_nodes[k + 1].block + 1].nodes,
                        b.spqr_nodes[k + 1].nodes[i])

\* C32: every builder the caller reaches is contained along the hierarchy;
\* add_block panics, adding no block, on a list with a node that is not of
\* the component given or with a node twice, add_spqr_node panics, adding no
\* SPQR node, on a list with a node that is not of the block given or with a
\* node twice, and what they return is contained again.
C32_Containment ==
    Building =>
        /\ Contained(builder)
        /\ \A component \in ComponentIndices(builder), nodes \in budget.lists :
               LET r == add_block(builder, graph, component, nodes) IN
                   /\ (\/ HasRepeat(nodes)
                       \/ \E i \in 1 .. Len(nodes) :
                              ~Contains(builder.components[component + 1].nodes, nodes[i]))
                      => ~r.ok /\ r.b.blocks = builder.blocks
                   /\ r.ok => Contained(r.b)
        /\ \A block \in BlockIndices(builder), nodes \in budget.lists, type \in budget.types :
               LET r == add_spqr_node(builder, block, nodes, type) IN
                   /\ (\/ HasRepeat(nodes)
                       \/ \E i \in 1 .. Len(nodes) :
                              ~Contains(builder.blocks[block + 1].nodes, nodes[i]))
                      => ~r.ok /\ r.b.spqr_nodes = builder.spqr_nodes
                   /\ r.ok => Contained(r.b)

\* The builder has two blocks of one component and an SPQR node in one of
\* them, and the caller holds a list of two nodes of that component that are
\* not both in the other block: add_spqr_node panics for the other block on
\* the membership check; and add_block panics on the component check for a
\* list without a repeat.
C32_Witness ==
    /\ Building
    /\ \E component \in ComponentIndices(builder), nodes \in budget.lists :
           /\ NoRepeat(nodes)
           /\ LET r == add_block(builder, graph, component, nodes) IN ~r.ok /\ r.at = 124
    /\ \E j \in BlockIndices(builder), l \in BlockIndices(builder), nodes \in budget.lists :
           /\ j /= l
           /\ builder.blocks[j + 1].component = builder.blocks[l + 1].component
           /\ \E k \in SPQRNodeIndices(builder) : builder.spqr_nodes[k + 1].block = j
           /\ Len(nodes) = 2
           /\ NoRepeat(nodes)
           /\ \A i \in 1 .. 2 :
                  builder.node_data[nodes[i]].component_index
                      = OptSome(builder.blocks[l + 1].component)
           /\ \E type \in budget.types :
                  LET r == add_spqr_node(builder, l, nodes, type) IN ~r.ok /\ r.at = 205


\* ---- C33

\* The turn of read's loop that is next, if a line is left.
NextStep == ReadStep(graph, file, reader.pos, reader.st, debug_assertions)

\* The next line is an E record whose names all resolve: its edge name is
\* the name of an edge of the graph that joins its two nodes and has no SPQR
\* node yet, and its SPQR node, which has both nodes, and its block are
\* declared.
ResolvedELine(line) ==
    /\ line[1] = Str(<<"E">>)
    /\ Len(line) >= 6
    /\ edge_index_from_name(graph, line[2]).some
    /\ edge_index_from_name(graph, line[2]).index \in EdgeIndices(graph)
    /\ node_index_from_name(graph, line[5]).some
    /\ node_index_from_name(graph, line[6]).some
    /\ {node_index_from_name(graph, line[5]).index,
        node_index_from_name(graph, line[6]).index}
           = {EdgeEndpoints(graph, edge_index_from_name(graph, line[2]).index)[1],
              EdgeEndpoints(graph, edge_index_from_name(graph, line[2]).index)[2]}
    /\ Known("name_to_spqr_node_index", line[3])
    /\ Known("name_to_block_index", line[4])
    /\ IsNone(reader.st.builder.edge_data[edge_index_from_name(graph, line[2]).index]
                  .spqr_node_index)
    /\ \A i \in {5, 6} :
           Contains(reader.st.builder.node_data[node_index_from_name(graph, line[i]).index]
                        .spqr_node_indices,
                    reader.st.name_to_spqr_node_index[line[3]])

C34_NoContractViolation ==
    phase = "read" => loaded.ok \/ (loaded.error /= "panic" /\ loaded.at = 0)


\* ---- C35

\* Node lists and node records name each other: a node is in the node list
\* of a component, block or SPQR node once when its record names it, and
\* not at all when it does not; and no record names one twice.
NodesMirrored(d, g) ==
    \A n \in NodeIndices(g) :
        /\ \A c \in ComponentIndices(d) :
               Times(d.components[c + 1].nodes, n)
                   = IF d.node_data[n].component_index = OptSome(c) THEN 1 ELSE 0
        /\ \A j \in BlockIndices(d) :
               /\ Times(d.blocks[j + 1].nodes, n) = Times(d.node_data[n].block_indices, j)
               /\ Times(d.blocks[j + 1].nodes, n) <= 1
        /\ \A k \in SPQRNodeIndices(d) :
               /\ Times(d.spqr_nodes[k + 1].nodes, n)
                      = Times(d.node_data[n].spqr_node_indices, k)
               /\ Times(d.spqr_nodes[k + 1].nodes, n) <= 1

\* Every block is once in the block list of its component and in that of
\* no other, every SPQR node once in the SPQR-node list of its block and in
\* that of no other.
OwnersMirrored(d) ==
    /\ \A j \in BlockIndices(d), c \in ComponentIndices(d) :
           Times(d.components[c + 1].blocks, j)
               = IF d.blocks[j + 1].component = c THEN 1 ELSE 0
    /\ \A k \in SPQRNodeIndices(d), j \in BlockIndices(d) :
           Times(d.blocks[j + 1].spqr_nodes, k)
               = IF d.spqr_nodes[k + 1].block = j THEN 1 ELSE 0

\* C35: in every builder between two calls and in the built decomposition,
\* the node lists of the components, blocks and SPQR nodes and the records
\* of the nodes name each other, nothing twice, and every block and SPQR
\* node is listed once, by its owner.
C35_Mirrored ==
    (Building \/ Built) => NodesMirrored(Current, graph) /\ OwnersMirrored(Current)

\* A decomposition was built with two blocks in one component, a node in
\* two blocks, and two SPQR nodes in one block.
C35_Witness ==
    /\ Built
    /\ \E c \in ComponentIndices(decomposition) : Len(decomposition.components[c + 1].blocks) = 2
    /\ \E n \in NodeIndices(graph) : Len(decomposition.node_data[n].block_indices) = 2
    /\ \E j \in BlockIndices(decomposition) : Len(decomposition.blocks[j + 1].spqr_nodes) = 2


\* ---- C36

\* The component, the block and the SPQR node of every edge that has an
\* SPQR node lie on one path: the block of the edge is the block of its SPQR
\* node, and the component of the edge is the component of that block.
OnOnePath(d, g) ==
    \A e \in EdgeIndices(g) :
        IsSome(d.edge_data[e].spqr_node_index)
        => /\ d.edge_data[e].block_index
                  = d.spqr_nodes[d.edge_data[e].spqr_node_index + 1].block
           /\ IsSome(d.edge_data[e].block_index)
           /\ d.edge_data[e].component_index
                  = d.blocks[d.edge_data[e].block_index + 1].component
           /\ IsSome(d.edge_data[e].component_index)

\* C36: whenever add_edge_to_spqr_node returns, the block recorded for the
\* edge is the block of the SPQR node and the component recorded for the
\* edge is the component of that block; so it is in every builder and in
\* every built decomposition.
C36_EdgeOnOnePath ==
    /\ (Building \/ Built) => OnOnePath(Current, graph)
    /\ Building =>
           \A e \in EdgeIndices(graph), k \in SPQRNodeIndices(builder) :
               LET r == add_edge_to_spqr_node(builder, graph, e, k) IN
                   r.ok => /\ OnOnePath(r.b, graph)
                           /\ r.b.edge_data[e].block_index = builder.spqr_nodes[k + 1].block
                           /\ r.b.edge_data[e].block_index = builder.edge_data[e].block_index
                           /\ r.b.edge_data[e].component_index
                                  = builder.blocks[builder.spqr_nodes[k + 1].block + 1].component

\* A decomposition was built in which two edges are in SPQR nodes of two
\* different blocks.
C36_Witness ==
    /\ Built
    /\ \E e \in EdgeIndices(graph), f \in EdgeIndices(graph) :
           /\ IsSome(decomposition.edge_data[e].spqr_node_index)
           /\ IsSome(decomposition.edge_data[f].spqr_node_index)
           /\ decomposition.spqr_nodes[decomposition.edge_data[e].spqr_node_index + 1].block
                  /= decomposition.spqr_nodes[decomposition.edge_data[f].spqr_node_index + 1].block


\* ---- C37

\* What read holds when it has gone through the lines of a text from
\* position pos: its builder and its maps from names to indices.
RECURSIVE ReaderAfter(_, _, _, _, _)
ReaderAfter(g, text, pos, st, debug) ==
    IF read_next_line(text, pos) = NoLine THEN st
    ELSE The({ IF step.end.done THEN st
               ELSE ReaderAfter(g, text, step.pos, step.end.st, debug) :
               step \in {ReadStep(g, text, pos, st, debug)} })

\* The maps read has built from the text that was written.
NamesRead ==
    ReaderAfter(graph, file, read_next_line(file, 1).pos, NewReader(graph), debug_assertions)

\* Every name of the map is one of the letters followed by the index the
\* map gives it.
BoundToOwnIndex(map, letters) ==
    \A name \in DOMAIN map : \E letter \in letters : name = Named(letter, map[name])

\* C37: when the text written for a built decomposition is read back, read
\* binds G{i} to component i, B{i} to block i, S{i}, P{i} and R{i} to SPQR
\* node i and V{i} to SPQR edge i, and the decomposition it returns has the
\* arenas of the one written.
C37_NamesKeepIndices ==
    (phase = "text_read" /\ loaded.ok) =>
        /\ BoundToOwnIndex(NamesRead.name_to_component_index, {"G"})
        /\ BoundToOwnIndex(NamesRead.name_to_block_index, {"B"})
        /\ BoundToOwnIndex(NamesRead.name_to_spqr_node_index, {"S", "P", "R"})
        /\ BoundToOwnIndex(NamesRead.name_to_spqr_edge_index, {"V"})
        /\ loaded.d.components = decomposition.components
        /\ loaded.d.blocks = decomposition.blocks
        /\ loaded.d.cut_nodes = decomposition.cut_nodes
        /\ loaded.d.spqr_nodes = decomposition.spqr_nodes
        /\ loaded.d.spqr_edges = decomposition.spqr_edges


\* ---- C38

\* The nodes that are the only node of their component.
AloneInComponent(d) ==
    {n \in NodeIndices(graph) :
         \E c \in ComponentIndices(d) : d.components[c + 1].nodes = <<n>>}

\* No call makes the only node of a component a node of an SPQR node: it is
\* in none, and add_spqr_node panics on every list that names it.
NeverInSPQRNode ==
    Building =>
        \A n \in AloneInComponent(builder) :
            /\ builder.node_data[n].spqr_node_indices = <<>>
            /\ \A block \in BlockIndices(builder), nodes \in NodeLists(graph, 2),
                  type \in SPQRNodeTypes :
                   Contains(nodes, n) => ~add_spqr_node(builder, block, nodes, type).ok

\* C38 as stated: the only node of a component is never a node of an SPQR
\* node, and build() panics for every builder with such a component.
C38_NeverFinalized ==
    /\ NeverInSPQRNode
    /\ (Building /\ AloneInComponent(builder) /= {})
           => ~build(builder, graph, debug_assertions).ok

\* C38, amended: the only node of a component is never a node of an SPQR
\* node; with debug assertions build() panics for every builder with such a
\* component, and a decomposition that has one was built without them and
\* gives that node no SPQR node.
C38_NeverFinalizedInDebug ==
    /\ NeverInSPQRNode
    /\ (Building /\ debug_assertions /\ AloneInComponent(builder) /= {})
           => ~build(builder, graph, debug_assertions).ok
    /\ (Built /\ AloneInComponent(decomposition) /= {})
           => /\ ~debug_assertions
              /\ \A n \in AloneInComponent(decomposition) :
                     decomposition.node_data[n].spqr_node_indices = <<>>

\* With debug assertions, a node is alone in its component and in a block
\* of it, every other node and every edge is placed, and build() panics on
\* the check of the SPQR nodes.
C38_Witness ==
    /\ Building
    /\ debug_assertions
    /\ \E n \in AloneInComponent(builder) : builder.node_data[n].block_indices /= <<>>
    /\ ~build(builder, graph, debug_assertions).ok
    /\ build(builder, graph, debug_assertions).at = 312
    /\ build(builder, graph, FALSE).ok


\* ---- C39

\* The next line is an E record with six tokens or more whose block name is
\* declared.
ELineOfDeclaredBlock(line) ==
    /\ line[1] = Str(<<"E">>)
    /\ Len(line) >= 6
    /\ Known("name_to_block_index", line[4])

\* C39: what read does with an E record whose block is declared is what it
\* does with the same record under any other declared block, be it the
\* block of the record's SPQR node or not; and the text whose last E record
\* names the other block is read as the text that names the right one.
C39_BlockNameUnused ==
    /\ (phase = "records" /\ LineLeft /\ NextStep.line /= <<>>
            /\ ELineOfDeclaredBlock(NextStep.line))
       => \A other \in DOMAIN reader.st.name_to_block_index :
              ReadLine(graph, reader.st, [NextStep.line EXCEPT ![4] = other],
                       debug_assertions) = NextStep.end
    /\ (phase = "read" /\ file = FileOf(<<Header>> \o OtherBlockRecords))
       => /\ loaded.ok
          /\ loaded = read(graph, FileOf(<<Header>> \o Records), debug_assertions)

\* read returned a decomposition for the text whose last E record names a
\* declared block that is not the block of its SPQR node.
C39_Witness ==
    /\ phase = "read"
    /\ file = FileOf(<<Header>> \o OtherBlockRecords)
    /\ loaded.ok
    /\ loaded.d.edge_data[1].block_index = 1
    /\ reader.st.name_to_block_index[Named("B", 0)] = 0
    /\ reader.st.name_to_spqr_node_index[Named("P", 2)] = 2
    /\ reader.st.builder.spqr_nodes[3].block = 1


\* ---- C40

\* No edge of the builder or decomposition has an annotation.
NoEdgeAnnotation(d) == \A e \in EdgeIndices(graph) : d.edge_data[e].extra_data = <<>>

\* The E line write gives for every edge of every SPQR node has its six
\* tokens and no more.
SixTokenELines(d) ==
    \A k \in SPQRNodeIndices(d) :
        \A i \in 1 .. Len(d.spqr_nodes[k + 1].edges) :
            LET text == WriteEdge(d, graph, d.spqr_nodes[k + 1].edges[i], k,
                                  d.spqr_nodes[k + 1].block)
            IN  Len(Split(SubSeq(text, 1, Len(text) - 1))) = 6

\* C40: no edge has an annotation in any builder read works on, nor in any
\* decomposition read returns; an E record with text after its node names
\* is read as the record without that text; and write gives E lines of six
\* tokens for what read returned.
C40_NoEdgeAnnotation ==
    /\ phase = "records" => NoEdgeAnnotation(reader.st.builder)
    /\ (phase = "records" /\ LineLeft /\ NextStep.line /= <<>>
            /\ NextStep.line[1] = Str(<<"E">>) /\ Len(NextStep.line) > 6)
       => /\ NextStep.end = ReadLine(graph, reader.st, SubSeq(NextStep.line, 1, 6),
                                     debug_assertions)
          /\ ~NextStep.end.done => NoEdgeAnnotation(NextStep.end.st.builder)
    /\ (phase = "read" /\ loaded.ok)
       => NoEdgeAnnotation(loaded.d) /\ SixTokenELines(loaded.d)
    /\ (phase = "read" /\ file = FileOf(<<Header>> \o AnnotatedEdgeRecords))
       => loaded.ok /\ loaded = read(graph, FileOf(<<Header>> \o Records), debug_assertions)

\* read returned a decomposition for the text whose last E record ends in
\* a text, with both edges in their SPQR nodes.
C40_Witness ==
    /\ phase = "read"
    /\ file = FileOf(<<Header>> \o AnnotatedEdgeRecords)
    /\ loaded.ok
    /\ \A e \in EdgeIndices(graph) : IsSome(loaded.d.edge_data[e].spqr_node_index)
    /\ \E k \in SPQRNodeIndices(loaded.d) : loaded.d.spqr_nodes[k + 1].edges /= <<>>

====
